---- MODULE Spec2Model ----
(***************************************************************************)
(* institut-back: the institutions router (src/src/routes/institutions.js, *)
(* the full-CRUD version registered from line 282 on), the pg connection   *)
(* pool it shares (src/src/config/db.js) and the relational store behind   *)
(* it, as a state machine.  A request is received, matched against the     *)
(* routes in registration order, passes the validateUUID middleware when   *)
(* the route has it, and then runs its handler one pool.query at a time.   *)
(***************************************************************************)
EXTENDS Integers, Sequences, FiniteSets, TLC

VARIABLES
  db,      \* the committed rows of every table
  pool,    \* the pg pool: its clients, the idle list, the queue of waiting queries
  reqs,    \* the request in each slot: what was asked, where its handler stands, its response
  clock,   \* what NOW() reads; ticks once per request received
  nextId,  \* how many identifiers uuidv4() has handed out
  faults,  \* transient store faults still to come
  env      \* the clients: the requests they send and whether they send them one at a time

vars == <<db, pool, reqs, clock, nextId, faults, env>>

(* ------------------------------ bounds -------------------------------- *)
\* clients the model's pool may hold (the program's pool holds 20, db.js:13)
PoolMax == 2
\* request slots: requests in flight at the same time
MaxSlots == 3
\* requests received in one behaviour; the clock NOW() reads ticks once per request
MaxClock == 3
\* transient store faults injected in one behaviour
MaxFaults == 1

Slots == 1..MaxSlots

(* --------------------------- JavaScript values ------------------------ *)
\* every value has the same shape, so that values of different types compare
V(t, n, s) == [t |-> t, n |-> n, s |-> s]
Str(s) == V("string", 0, s)
Num(n) == V("number", n, "")
Null == V("null", 0, "")
Undefined == V("undefined", 0, "")

\* !v
Falsy(v) ==
  \/ v.t \in {"null", "undefined"}
  \/ v.t = "number" /\ v.n = 0
  \/ v.t = "string" /\ v.s = ""

\* req.body[f]
Get(body, f) == IF f \in DOMAIN body THEN body[f] ELSE Undefined

\* the decimal strings a client sends for numbers
Decimals == [n \in 0..9 |-> <<"0","1","2","3","4","5","6","7","8","9">>[n + 1]]

\* ToNumber(v): nan is TRUE when the value is no number (undefined, other text)
ToNumber(v) ==
  CASE v.t = "number" -> [nan |-> FALSE, n |-> v.n]
    [] v.t = "null" -> [nan |-> FALSE, n |-> 0]
    [] v.t = "string" /\ v.s = "" -> [nan |-> FALSE, n |-> 0]
    [] v.t = "string" /\ \E n \in DOMAIN Decimals : Decimals[n] = v.s ->
         [nan |-> FALSE, n |-> CHOOSE n \in DOMAIN Decimals : Decimals[n] = v.s]
    [] OTHER -> [nan |-> TRUE, n |-> 0]

\* v < k and v > k for a number k: false when v is no number
Lt(v, k) == ~ToNumber(v).nan /\ ToNumber(v).n < k
Gt(v, k) == ~ToNumber(v).nan /\ ToNumber(v).n > k

\* the strings that stand for a UUID text: the hexadecimal digit it repeats
UuidDigit ==
  [i1 |-> "1", i2 |-> "2", i9 |-> "9", ca |-> "a", cb |-> "b", oa |-> "c",
   ob |-> "d", pa |-> "7", k1 |-> "e", s1 |-> "f", t1 |-> "0", n1 |-> "3", n2 |-> "4",
   n3 |-> "5", n4 |-> "6", n5 |-> "8", UP |-> "A", gg |-> "g", k2 |-> "B",
   s2 |-> "C", g1 |-> "D", d1 |-> "E", c1 |-> "F"]

Rep(c, n) == [i \in 1..n |-> c]

\* xxxxxxxx-xxxx-xxxx-xxxx-xxxxxxxxxxxx
UuidText(c) ==
  Rep(c, 8) \o <<"-">> \o Rep(c, 4) \o <<"-">> \o Rep(c, 4) \o <<"-">>
    \o Rep(c, 4) \o <<"-">> \o Rep(c, 12)

\* the characters of a string
Chars(s) ==
  CASE s \in DOMAIN UuidDigit -> UuidText(UuidDigit[s])
     [] s = "short" -> SubSeq(UuidText("1"), 1, 35)
     [] s = "nohyphen" -> Rep("1", 36)
     [] s = "categories" -> <<"c","a","t","e","g","o","r","i","e","s">>
     [] s = "subtypes" -> <<"s","u","b","t","y","p","e","s">>
     [] s = "contact-types" -> <<"c","o","n","t","a","c","t","-","t","y","p","e","s">>
     [] s = "staff-types" -> <<"s","t","a","f","f","-","t","y","p","e","s">>
     [] s = "utility-types" -> <<"u","t","i","l","i","t","y","-","t","y","p","e","s">>
     [] s = "opening-hours" -> <<"o","p","e","n","i","n","g","-","h","o","u","r","s">>
     [] s = "contacts" -> <<"c","o","n","t","a","c","t","s">>
     [] s = "staff" -> <<"s","t","a","f","f">>
     [] s = "utilities" -> <<"u","t","i","l","i","t","i","e","s">>
     [] s = "services" -> <<"s","e","r","v","i","c","e","s">>
     [] s = "photos" -> <<"p","h","o","t","o","s">>
     [] s = "education_fees" -> <<"e","d","u","c","a","t","i","o","n","_","f","e","e","s">>
     [] s = "ratios" -> <<"r","a","t","i","o","s">>
     [] s = "geo" -> <<"g","e","o">>
     [] s = "regions" -> <<"r","e","g","i","o","n","s">>
     [] s = "districts" -> <<"d","i","s","t","r","i","c","t","s">>
     [] s = "communes" -> <<"c","o","m","m","u","n","e","s">>
     [] s = "streets" -> <<"s","t","r","e","e","t","s">>
     [] s = "stats" -> <<"s","t","a","t","s">>
     [] s = "nearby" -> <<"n","e","a","r","b","y">>
     [] s = "a@b.c" -> <<"a","@","b",".","c">>
     [] s = "a@b" -> <<"a","@","b">>
     [] s = "a.b@" -> <<"a",".","b","@">>
     [] s = "A" -> <<"A">>
     [] s = "Ab" -> <<"A", "b">>
     [] s = "a" -> <<"a">>
     [] s = "b" -> <<"b">>
     [] s = "_" -> <<"_">>
     [] s = "B" -> <<"B">>
     [] s = "x" -> <<"x">>
     [] s = "y" -> <<"y">>
     [] s = "ouvert" -> <<"o","u","v","e","r","t">>
     [] s = "ferme" -> <<"f","e","r","m","e">>
     [] s = "edu" -> <<"e","d","u">>
     [] s = "prim" -> <<"p","r","i","m">>
     [] s = "tel" -> <<"t","e","l">>
     [] s = "not-a-uuid" -> <<"n","o","t","-","a","-","u","u","i","d">>
     [] s = "" -> <<>>

(* ------------------------------ validators ---------------------------- *)
HexDigits ==
  {"0","1","2","3","4","5","6","7","8","9","a","b","c","d","e","f",
   "A","B","C","D","E","F"}

HyphenAt == {9, 14, 19, 24}

\* /^[0-9a-f]{8}-[0-9a-f]{4}-[0-9a-f]{4}-[0-9a-f]{4}-[0-9a-f]{12}$/i
uuidRegex(cs) ==
  /\ Len(cs) = 36
  /\ \A i \in 1..36 : IF i \in HyphenAt THEN cs[i] = "-" ELSE cs[i] \in HexDigits

\* /^[^\s@]+@[^\s@]+\.[^\s@]+$/
emailRegex(cs) ==
  \E i, j \in 1..Len(cs) :
    /\ 1 < i /\ i + 1 < j /\ j < Len(cs)
    /\ cs[i] = "@" /\ cs[j] = "."
    /\ \A k \in (1..Len(cs)) \ {i} : cs[k] \notin {"@", " "}

(* ------------------------------ the routes ---------------------------- *)
ParamSegs == {":id", ":itemId", ":ohId"}

Route(method, pattern, mw, handler, rel) ==
  [method |-> method, pattern |-> pattern, mw |-> mw, handler |-> handler, rel |-> rel]

\* the descriptors of the generic relations
relations ==
  << [name |-> "contacts", table |-> "contact",
      fields |-> <<"contact_type_id", "value">>,
      required |-> <<"contact_type_id", "value">>],
     [name |-> "staff", table |-> "institution_staff",
      fields |-> <<"staff_type_id", "quantity">>,
      required |-> <<"staff_type_id", "quantity">>],
     [name |-> "utilities", table |-> "institution_utility",
      fields |-> <<"utility_type_id", "availability">>,
      required |-> <<"utility_type_id">>],
     [name |-> "services", table |-> "service",
      fields |-> <<"service_code", "name", "description">>,
      required |-> <<"service_code", "name">>],
     [name |-> "photos", table |-> "photo",
      fields |-> <<"url", "caption", "credit">>,
      required |-> <<"url">>],
     [name |-> "education_fees", table |-> "education_fee",
      fields |-> <<"level", "amount", "currency", "description">>,
      required |-> <<"level", "amount">>],
     [name |-> "ratios", table |-> "institution_ratio",
      fields |-> <<"ratio_type", "value", "year">>,
      required |-> <<"ratio_type", "value">>] >>

\* relations.forEach: the five routes of one relation, in registration order
RelationRoutes(k) ==
  LET n == relations[k].name IN
  << Route("GET", <<":id", n>>, TRUE, "relationList", k),
     Route("GET", <<":id", n, ":itemId">>, TRUE, "relationGet", k),
     Route("POST", <<":id", n>>, TRUE, "relationCreate", k),
     Route("PUT", <<":id", n, ":itemId">>, TRUE, "relationUpdate", k),
     Route("DELETE", <<":id", n, ":itemId">>, TRUE, "relationDelete", k) >>

RECURSIVE AllRelationRoutes(_)
AllRelationRoutes(k) ==
  IF k > Len(relations) THEN <<>> ELSE RelationRoutes(k) \o AllRelationRoutes(k + 1)

\* every router.<method>(...) of the router, in the order the file registers them
Routes ==
  << Route("GET", <<"categories">>, FALSE, "categoryList", 0),
     Route("POST", <<"categories">>, FALSE, "categoryCreate", 0),
     Route("PUT", <<"categories", ":id">>, TRUE, "categoryUpdate", 0),
     Route("DELETE", <<"categories", ":id">>, TRUE, "categoryDelete", 0),
     Route("GET", <<"subtypes">>, FALSE, "subtypeList", 0),
     Route("POST", <<"subtypes">>, FALSE, "subtypeCreate", 0),
     Route("PUT", <<"subtypes", ":id">>, TRUE, "subtypeUpdate", 0),
     Route("DELETE", <<"subtypes", ":id">>, TRUE, "subtypeDelete", 0),
     Route("GET", <<"contact-types">>, FALSE, "contactTypeList", 0),
     Route("POST", <<"contact-types">>, FALSE, "contactTypeCreate", 0),
     Route("GET", <<"staff-types">>, FALSE, "staffTypeList", 0),
     Route("POST", <<"staff-types">>, FALSE, "staffTypeCreate", 0),
     Route("GET", <<"utility-types">>, FALSE, "utilityTypeList", 0),
     Route("POST", <<"utility-types">>, FALSE, "utilityTypeCreate", 0),
     Route("GET", <<>>, FALSE, "institutionList", 0),
     Route("GET", <<":id">>, TRUE, "institutionGet", 0),
     Route("POST", <<>>, FALSE, "institutionCreate", 0),
     Route("PUT", <<":id">>, TRUE, "institutionUpdate", 0),
     Route("DELETE", <<":id">>, TRUE, "institutionDelete", 0),
     Route("GET", <<":id", "opening-hours">>, TRUE, "openingHourList", 0),
     Route("POST", <<":id", "opening-hours">>, TRUE, "openingHourCreate", 0),
     Route("PUT", <<":id", "opening-hours", ":ohId">>, TRUE, "openingHourUpdate", 0),
     Route("DELETE", <<":id", "opening-hours", ":ohId">>, TRUE, "openingHourDelete", 0) >>
  \o AllRelationRoutes(1) \o
  << Route("GET", <<"geo", "regions">>, FALSE, "regionList", 0),
     Route("POST", <<"geo", "regions">>, FALSE, "regionCreate", 0),
     Route("GET", <<"geo", "districts">>, FALSE, "districtList", 0),
     Route("POST", <<"geo", "districts">>, FALSE, "districtCreate", 0),
     Route("GET", <<"geo", "communes">>, FALSE, "communeList", 0),
     Route("POST", <<"geo", "communes">>, FALSE, "communeCreate", 0),
     Route("GET", <<"geo", "streets">>, FALSE, "streetList", 0),
     Route("POST", <<"geo", "streets">>, FALSE, "streetCreate", 0),
     Route("GET", <<"stats">>, FALSE, "stats", 0),
     Route("GET", <<"nearby">>, FALSE, "nearby", 0) >>

\* a route's path pattern matches a request path, segment by segment
Match(pattern, path) ==
  /\ Len(pattern) = Len(path)
  /\ \A i \in 1..Len(pattern) : pattern[i] \in ParamSegs \/ pattern[i] = path[i]

Min(S) == CHOOSE x \in S : \A y \in S : x <= y

\* the router hands the request to the first registered route that matches it
\* (0: no route of the router matches)
Dispatch(method, path) ==
  LET hits == {i \in 1..Len(Routes) :
                 Routes[i].method = method /\ Match(Routes[i].pattern, path)}
  IN IF hits = {} THEN 0 ELSE Min(hits)

\* req.params[name] ("" when the route has no such parameter)
Param(route, path, name) ==
  LET pat == Routes[route].pattern
      at == {i \in 1..Len(pat) : pat[i] = name}
  IN IF at = {} THEN "" ELSE path[Min(at)]

\* validateUUID lets the request through to its handler
validateUUID(route, path) == uuidRegex(Chars(Param(route, path, ":id")))

(* ------------------------------ the schema ---------------------------- *)
\* the child tables, in the order the institution delete empties them
childTables ==
  <<"contact", "institution_staff", "institution_utility", "service", "photo",
    "opening_hour", "education_fee", "institution_ratio">>

\* the editable columns of an institution
allowedFields ==
  <<"category_id", "subtype_id", "name", "label", "description", "lat", "lng",
    "region_id", "district_id", "commune_id", "street_id", "established",
    "capacity", "last_renovation", "accreditation", "phone_principal",
    "email_principal", "website", "status", "building_condition">>

Range(f) == {f[i] : i \in DOMAIN f}

RefTables ==
  {"institution_category", "institution_subtype", "contact_type", "staff_type",
   "utility_type", "region", "district", "commune", "street"}

Tables == {"institution"} \cup Range(childTables) \cup RefTables

RelationOf(table) == CHOOSE k \in 1..Len(relations) : relations[k].table = table

Columns(table) ==
  CASE table = "institution" -> {"id", "last_update"} \cup Range(allowedFields)
    [] table = "opening_hour" ->
         {"id", "institution_id", "day_of_week", "open_time", "close_time"}
    [] table \in Range(childTables) ->
         {"id", "institution_id"} \cup Range(relations[RelationOf(table)].fields)
    [] table = "institution_subtype" -> {"id", "category_id", "code", "label"}
    [] table = "region" -> {"id", "code", "name"}
    [] table = "district" -> {"id", "region_id", "code", "name"}
    [] table = "commune" -> {"id", "district_id", "code", "name"}
    [] table = "street" -> {"id", "commune_id", "name", "postal_code"}
    [] OTHER -> {"id", "code", "label"}

\* <<column, referenced table>>
ForeignKeys(table) ==
  CASE table = "institution" ->
         {<<"category_id", "institution_category">>,
          <<"subtype_id", "institution_subtype">>, <<"region_id", "region">>,
          <<"district_id", "district">>, <<"commune_id", "commune">>,
          <<"street_id", "street">>}
    [] table = "contact" ->
         {<<"institution_id", "institution">>, <<"contact_type_id", "contact_type">>}
    [] table = "institution_staff" ->
         {<<"institution_id", "institution">>, <<"staff_type_id", "staff_type">>}
    [] table = "institution_utility" ->
         {<<"institution_id", "institution">>, <<"utility_type_id", "utility_type">>}
    [] table \in Range(childTables) -> {<<"institution_id", "institution">>}
    [] table = "institution_subtype" -> {<<"category_id", "institution_category">>}
    [] table = "district" -> {<<"region_id", "region">>}
    [] table = "commune" -> {<<"district_id", "district">>}
    [] table = "street" -> {<<"commune_id", "commune">>}
    [] OTHER -> {}

\* the column sets that are unique in a table
UniqueKeys(table) ==
  {{"id"}} \cup
  CASE table = "institution" -> {{"name"}}
    [] table = "opening_hour" -> {{"institution_id", "day_of_week"}}
    [] table = "street" -> {{"name"}}
    [] table \in RefTables -> {{"code"}}
    [] OTHER -> {}

NotNull(table) ==
  CASE table = "institution" -> {"id", "name", "category_id", "subtype_id"}
    [] table \in Range(childTables) -> {"id", "institution_id"}
    [] OTHER -> {"id"}

UuidColumns ==
  {"id", "institution_id", "category_id", "subtype_id", "region_id", "district_id",
   "commune_id", "street_id", "contact_type_id", "staff_type_id", "utility_type_id"}

IntColumns ==
  {"day_of_week", "capacity", "quantity", "year", "established", "lat", "lng",
   "amount", "last_update"}

ColType(table, col) ==
  CASE col \in UuidColumns -> "uuid"
    [] col \in IntColumns -> "int"
    [] col = "value" /\ table = "institution_ratio" -> "int"
    [] OTHER -> "text"

\* a bound parameter as a value of the column's type; ok is FALSE when the
\* store cannot read the text as that type (22P02)
Coerce(v, ty) ==
  CASE v.t \in {"null", "undefined"} -> [ok |-> TRUE, v |-> Null]
    [] ty = "uuid" ->
         [ok |-> v.t = "string" /\ uuidRegex(Chars(v.s)), v |-> v]
    [] ty = "int" /\ v.t = "number" -> [ok |-> TRUE, v |-> v]
    [] ty = "int" ->
         IF \E n \in DOMAIN Decimals : Decimals[n] = v.s
         THEN [ok |-> TRUE, v |-> Num(CHOOSE n \in DOMAIN Decimals : Decimals[n] = v.s)]
         ELSE [ok |-> FALSE, v |-> v]
    [] v.t = "number" /\ v.n \in DOMAIN Decimals -> [ok |-> TRUE, v |-> Str(Decimals[v.n])]
    [] OTHER -> [ok |-> TRUE, v |-> v]

(* ----------------------------- SQL statements ------------------------- *)
\* a term of a statement's text: a positional placeholder $n or the literal n
Ph(n) == [k |-> "ph", n |-> n]
Lit(n) == [k |-> "lit", n |-> n]

Stmt(op, table, cols, vals, set, now, where, params) ==
  [op |-> op, table |-> table, cols |-> cols, vals |-> vals, set |-> set,
   now |-> now, where |-> where, params |-> params]

NoStmt == Stmt("", "", <<>>, <<>>, <<>>, {}, <<>>, <<>>)
Tx(op) == Stmt(op, "", <<>>, <<>>, <<>>, {}, <<>>, <<>>)
Select(table, where, params) == Stmt("SELECT", table, <<>>, <<>>, <<>>, {}, where, params)
Delete(table, where, params) == Stmt("DELETE", table, <<>>, <<>>, <<>>, {}, where, params)
Insert(table, cols, vals, now, params) ==
  Stmt("INSERT", table, cols, vals, <<>>, now, <<>>, params)
Update(table, set, now, where, params) ==
  Stmt("UPDATE", table, <<>>, <<>>, set, now, where, params)

\* <<column, term>> for every term of the statement's text
Terms(st) ==
  {<<st.cols[i], st.vals[i]>> : i \in DOMAIN st.vals}
    \cup Range(st.set) \cup Range(st.where)

Max(S) == CHOOSE x \in S : \A y \in S : x >= y

\* the number of parameters the statement's text asks for
ParamsWanted(st) ==
  LET ns == {ct[2].n : ct \in {x \in Terms(st) : x[2].k = "ph"}}
  IN IF ns = {} THEN 0 ELSE Max(ns)

EmptyEffect == [t \in Tables |-> {}]

Result(err, rows, del, ins) == [err |-> err, rows |-> rows, del |-> del, ins |-> ins]

Failed(code) == Result(code, {}, EmptyEffect, EmptyEffect)

\* two rows of `rows` agree on a unique key
UniqueViolation(table, rows) ==
  \E key \in UniqueKeys(table) : \E r1, r2 \in rows :
    r1 # r2 /\ \A c \in key : r1[c] = r2[c] /\ r1[c] # Null

\* a row of `rows` names a parent that `view` does not hold
ForeignKeyViolation(view, table, rows) ==
  \E fk \in ForeignKeys(table) : \E r \in rows :
    r[fk[1]] # Null /\ \A p \in view[fk[2]] : p["id"] # r[fk[1]]

\* a row of another table still names one of `rows`
StillReferenced(view, table, rows) ==
  \E t \in Tables : \E fk \in ForeignKeys(t) :
    fk[2] = table /\ \E c \in view[t] : \E r \in rows : c[fk[1]] = r["id"]

\* what the store does with one statement, read against `view`:
\* err is the SQLSTATE ("" when the statement succeeds), rows what it returns,
\* del and ins the rows it removes from and adds to each table
Exec(view, st, now) ==
  LET tbl == st.table
      terms == Terms(st)
      read == [ct \in terms |->
                 IF ct[2].k = "ph" /\ ct[2].n \in DOMAIN st.params
                 THEN Coerce(st.params[ct[2].n], ColType(tbl, ct[1]))
                 ELSE [ok |-> TRUE, v |-> Num(ct[2].n)]]
      hit == {r \in view[tbl] : \A i \in DOMAIN st.where :
                r[st.where[i][1]] = read[st.where[i]].v /\ r[st.where[i][1]] # Null}
      inserted == [c \in Columns(tbl) |->
                     IF \E i \in DOMAIN st.cols : st.cols[i] = c
                     THEN read[LET i == CHOOSE i \in DOMAIN st.cols : st.cols[i] = c
                               IN <<c, st.vals[i]>>].v
                     ELSE IF c \in st.now THEN Num(now) ELSE Null]
      changed == [r \in hit |->
                    [c \in Columns(tbl) |->
                       IF \E i \in DOMAIN st.set : st.set[i][1] = c
                       THEN read[st.set[CHOOSE i \in DOMAIN st.set : st.set[i][1] = c]].v
                       ELSE IF c \in st.now THEN Num(now) ELSE r[c]]]
      news == IF st.op = "INSERT" THEN {inserted}
              ELSE IF st.op = "UPDATE" THEN {changed[r] : r \in hit} ELSE {}
      olds == IF st.op \in {"UPDATE", "DELETE"} THEN hit ELSE {}
      after == (view[tbl] \ olds) \cup news
  IN
  CASE \E ct \in terms : ct[2].k = "lit" /\ ColType(tbl, ct[1]) = "uuid" -> Failed("42804")
    [] ParamsWanted(st) # Len(st.params) -> Failed("08P01")
    [] \E ct \in terms : ~read[ct].ok -> Failed("22P02")
    [] st.op = "SELECT" -> Result("", hit, EmptyEffect, EmptyEffect)
    [] \E r \in news : \E c \in NotNull(tbl) : r[c] = Null -> Failed("23502")
    [] UniqueViolation(tbl, after) -> Failed("23505")
    [] ForeignKeyViolation(view, tbl, news) -> Failed("23503")
    [] st.op = "DELETE" /\ StillReferenced(view, tbl, olds) -> Failed("23503")
    [] OTHER ->
         Result("", IF st.op = "DELETE" THEN olds ELSE news,
                [EmptyEffect EXCEPT ![tbl] = olds], [EmptyEffect EXCEPT ![tbl] = news])

(* ------------------------ the institution list query ------------------ *)
\* LOWER(text) and String.prototype.toLowerCase() on the model's alphabet
Lower(cs) ==
  [i \in DOMAIN cs |-> CASE cs[i] = "A" -> "a" [] cs[i] = "B" -> "b" [] OTHER -> cs[i]]

\* text LIKE pattern: % stands for any run of characters, _ for any one
RECURSIVE Like(_, _)
Like(cs, pattern) ==
  IF pattern = <<>> THEN cs = <<>>
  ELSE IF Head(pattern) = "%"
    THEN Like(cs, Tail(pattern)) \/ (cs # <<>> /\ Like(Tail(cs), pattern))
  ELSE /\ cs # <<>>
       /\ Head(pattern) = "_" \/ Head(pattern) = Head(cs)
       /\ Like(Tail(cs), Tail(pattern))

\* the order the store sorts the names of the model in
Collation == <<"", "A", "Ab", "B", "x", "y">>

\* ORDER BY col: ascending, rows without a value last
RECURSIVE OrderBy(_, _)
OrderBy(rows, col) ==
  IF rows = {} THEN <<>>
  ELSE LET rank(x) == IF x[col] = Null THEN Len(Collation) + 1
                      ELSE Min({i \in DOMAIN Collation : Collation[i] = x[col].s}
                                 \cup {Len(Collation)})
           first == CHOOSE x \in rows : \A y \in rows : rank(x) <= rank(y)
       IN <<first>> \o OrderBy(rows \ {first}, col)

\* the rows of institution that satisfy every condition of the WHERE clause
Qualifies(view, st) ==
  LET n == Len(st.where)
      arg == [i \in 1..n |-> st.params[st.where[i].ph.n]]
      found == [i \in 1..n |->
                  {y["id"] : y \in {y \in view[st.where[i].table] :
                                      y[st.where[i].on] = arg[i]}}]
  IN {x \in view["institution"] :
        \A i \in 1..n :
          LET c == st.where[i] IN
          CASE c.kind = "code" -> x[c.col] \in found[i]
            [] c.kind = "like" ->
                 x[c.col] # Null /\ Like(Lower(Chars(x[c.col].s)), arg[i].s)
            [] c.kind = "eq" -> x[c.col] = arg[i]
            [] c.kind = "ge" -> x[c.col] # Null /\ x[c.col].n >= Coerce(arg[i], "int").v.n
            [] c.kind = "le" -> x[c.col] # Null /\ x[c.col].n <= Coerce(arg[i], "int").v.n}

\* the ORDER BY text as the store reads it: a column of institution, or a
\* column followed by DESC; any other text of the model names no column
SortTerm(text) ==
  CASE text \in Columns("institution") -> [ok |-> TRUE, col |-> text, desc |-> FALSE]
    [] text = "name DESC" -> [ok |-> TRUE, col |-> "name", desc |-> TRUE]
    [] OTHER -> [ok |-> FALSE, col |-> "", desc |-> FALSE]

Reverse(seq) == [i \in DOMAIN seq |-> seq[Len(seq) + 1 - i]]

\* SELECT i.*, ... FROM institution i LEFT JOIN ... [WHERE ...] GROUP BY i.id, ...
\* ORDER BY <sort> LIMIT $n OFFSET $m. The LEFT JOINs and json_agg columns
\* add columns to an institution's row and GROUP BY i.id keeps one row for
\* each institution, so the rows are kept as the institution rows
ExecList(view, st) ==
  LET n == Len(st.where)
      arg == [i \in 1..n |-> st.params[st.where[i].ph.n]]
      limit == st.params[st.limit.n]
      offset == st.params[st.offset.n]
  IN
  CASE ~SortTerm(st.sort).ok -> Failed("42703")
    [] \E i \in 1..n : st.where[i].kind \in {"ge", "le"} /\ ~Coerce(arg[i], "int").ok ->
         Failed("22P02")
    [] limit.t # "number" \/ offset.t # "number" -> Failed("22P02")
    [] \E i \in 1..n :
         /\ st.where[i].kind = "code"
         /\ Cardinality({y \in view[st.where[i].table] : y[st.where[i].on] = arg[i]}) > 1 ->
         Failed("21000")
    [] limit.n < 0 -> Failed("2201W")
    [] offset.n < 0 -> Failed("2201X")
    [] OTHER ->
         LET asc == OrderBy(Qualifies(view, st), SortTerm(st.sort).col)
             sorted == IF SortTerm(st.sort).desc THEN Reverse(asc) ELSE asc
         IN Result("", SubSeq(sorted, offset.n + 1, Min({offset.n + limit.n, Len(sorted)})),
                   EmptyEffect, EmptyEffect)

(* --------------------------- the connection pool ---------------------- *)
\* a query in flight: <<request slot, position in the handler's fan-out>>
NoQuery == <<0, 0>>

\* a client the pool does not hold (never connected, or removed after an error)
Closed ==
  [open |-> FALSE, busy |-> NoQuery, txn |-> FALSE, del |-> EmptyEffect, ins |-> EmptyEffect]

Clients == 1..PoolMax

\* the client that runs query q (0: q waits in the pool's queue)
ClientOf(p, q) ==
  IF \E c \in Clients : p.conns[c].busy = q
  THEN CHOOSE c \in Clients : p.conns[c].busy = q ELSE 0

\* pool.query: the query joins the pool's queue
Connect(p, q) == [p EXCEPT !.pending = Append(@, q)]

\* the pool serves its queue: the first waiting query takes the client released
\* last, or a new client while the pool holds fewer than max; otherwise it waits
RECURSIVE Pulse(_)
Pulse(p) ==
  IF p.pending = <<>> THEN p
  ELSE IF p.idle # <<>> THEN
    LET c == p.idle[Len(p.idle)] IN
    Pulse([p EXCEPT !.idle = SubSeq(@, 1, Len(@) - 1), !.pending = Tail(@),
                    !.conns[c].busy = Head(p.pending)])
  ELSE IF \E c \in Clients : ~p.conns[c].open THEN
    LET c == Min({x \in Clients : ~p.conns[x].open}) IN
    Pulse([p EXCEPT !.pending = Tail(@),
                    !.conns[c] = [Closed EXCEPT !.open = TRUE, !.busy = Head(p.pending)]])
  ELSE p

\* a release that takes the query off the client and leaves the client
\* checked out
ReleaseLeaking(p, c, err) ==
  Pulse(IF err THEN [p EXCEPT !.conns[c] = Closed]
        ELSE [p EXCEPT !.conns[c].busy = NoQuery])

\* client.release(err): a client whose query failed is removed from the pool and
\* its session ends (the store rolls back what it had open); otherwise the
\* client goes back on the idle list
Release(p, c, err) ==
  Pulse(IF err THEN [p EXCEPT !.conns[c] = Closed]
        ELSE [p EXCEPT !.conns[c].busy = NoQuery, !.idle = Append(@, c)])

\* idleTimeoutMillis: a client that stayed on the idle list is removed from the
\* pool and its session ends (the store rolls back what it had open)
Expire(p, c) ==
  LET other(x) == x # c
  IN [p EXCEPT !.conns[c] = Closed, !.idle = SelectSeq(@, other)]

\* the rows a statement on client c reads: the committed rows and the
\* uncommitted work of the transaction open on c
View(d, p, c) == [t \in Tables |-> (d[t] \ p.conns[c].del[t]) \cup p.conns[c].ins[t]]

\* a transient fault of the store
FaultCode == "57014"

\* the store's answer to statement st on client c
Answer(d, p, c, st, now, fault) ==
  IF fault THEN Failed(FaultCode)
  ELSE IF st.op \in {"BEGIN", "COMMIT", "ROLLBACK"} THEN Result("", {}, EmptyEffect, EmptyEffect)
  ELSE IF st.op = "LIST" THEN ExecList(View(d, p, c), st)
  ELSE Exec(View(d, p, c), st, now)

\* the statement waits for a row lock held by a transaction open on another
\* client o: it writes a row o has written, or whether a key it checks (unique
\* or foreign) is satisfied depends on how o's transaction ends
Blocked(d, p, c, st) ==
  /\ st.op \in {"INSERT", "UPDATE", "DELETE"}
  /\ \E o \in Clients \ {c} :
       LET mine == View(d, p, c)
           both == [t \in Tables |-> (mine[t] \ p.conns[o].del[t]) \cup p.conns[o].ins[t]]
           a == [ended \in BOOLEAN |-> Exec(IF ended THEN both ELSE mine, st, 0)]
       IN /\ p.conns[o].txn
          /\ \/ \E t \in Tables : a[FALSE].del[t] \cap p.conns[o].del[t] # {}
             \/ (a[FALSE].err \in {"23505", "23503"}) # (a[TRUE].err \in {"23505", "23503"})

\* the committed rows after statement st on client c
Committed(d, p, c, st, a) ==
  IF a.err # "" THEN d
  ELSE IF st.op = "COMMIT"
    THEN [t \in Tables |-> (d[t] \ p.conns[c].del[t]) \cup p.conns[c].ins[t]]
  ELSE IF st.op \in {"BEGIN", "ROLLBACK"} \/ p.conns[c].txn THEN d
  ELSE [t \in Tables |-> (d[t] \ a.del[t]) \cup a.ins[t]]

\* client c's session after statement st
Session(p, c, st, a) ==
  LET s == p.conns[c] IN
  IF a.err # "" THEN s
  ELSE IF st.op = "BEGIN" THEN [s EXCEPT !.txn = TRUE]
  ELSE IF st.op \in {"COMMIT", "ROLLBACK"}
    THEN [s EXCEPT !.txn = FALSE, !.del = EmptyEffect, !.ins = EmptyEffect]
  ELSE IF s.txn
    THEN [s EXCEPT !.del = [t \in Tables |-> @[t] \cup (a.del[t] \ s.ins[t])],
                   !.ins = [t \in Tables |-> (@[t] \ a.del[t]) \cup a.ins[t]]]
  ELSE s

(* ------------------------------ requests ------------------------------ *)
\* a request as the router receives it, with the route it is dispatched to
Request(method, path, body) ==
  [method |-> method, path |-> path, body |-> body, route |-> Dispatch(method, path)]

NoBody == [f \in {} |-> Null]

\* pre, before and after are the committed rows when the request arrived and just
\* before and just after the step that decided its response; fault tells that
\* the store failed the statement of that step
FreeSlot ==
  [method |-> "", path |-> <<>>, body |-> NoBody, route |-> 0, pc |-> "free", k |-> 0,
   stmt |-> NoStmt, status |-> 0, data |-> {}, fault |-> FALSE,
   pre |-> EmptyEffect, before |-> EmptyEffect, after |-> EmptyEffect]

InFlight(r) == reqs[r].pc \notin {"free", "done"}

HandlerOf(r) == IF reqs[r].route = 0 THEN "" ELSE Routes[reqs[r].route].handler

\* the handler the router hands q to ("" when no route matches)
HandlerFor(q) == IF q.route = 0 THEN "" ELSE Routes[q.route].handler

\* the queries of slot r's request the pool still holds (waiting or running)
Outstanding(r) ==
  {k \in 1..Len(childTables) :
     ClientOf(pool, <<r, k>>) # 0 \/ \E i \in DOMAIN pool.pending : pool.pending[i] = <<r, k>>}

\* a client sends request q and the server takes it into slot r; the clients
\* keep at most env.width requests in flight (with width 1 each waits for the
\* response before the next request is sent), and at most one request of a
\* handler in env.solo is in the slots
Admit(r, q) ==
  /\ q \in env.requests
  /\ clock < MaxClock
  /\ ~InFlight(r) /\ Outstanding(r) = {}
  /\ \A s \in Slots : s < r => (InFlight(s) \/ Outstanding(s) # {})
  /\ Cardinality({s \in Slots : InFlight(s)}) < env.width
  /\ \A s \in Slots \ {r} : HandlerOf(s) \in env.solo => HandlerOf(s) # HandlerFor(q)

\* the router hands q to `handler`, past validateUUID when the route has it
Enter(r, q, handler) ==
  /\ Admit(r, q)
  /\ HandlerFor(q) = handler
  /\ Routes[q.route].mw => validateUUID(q.route, q.path)

Taken(q) ==
  [FreeSlot EXCEPT !.method = q.method, !.path = q.path, !.body = q.body,
                   !.route = q.route, !.pre = db, !.before = db, !.after = db]

\* the handler answers before any query
Answered(r, q, status) ==
  /\ reqs' = [reqs EXCEPT ![r] = [Taken(q) EXCEPT !.pc = "done", !.status = status]]
  /\ clock' = clock + 1
  /\ UNCHANGED <<db, pool, nextId, faults, env>>

\* the handler issues its first query and awaits it
Started(r, q, pc, st) ==
  /\ reqs' = [reqs EXCEPT ![r] = [Taken(q) EXCEPT !.pc = pc, !.stmt = st]]
  /\ pool' = Pulse(Connect(pool, <<r, 1>>))
  /\ clock' = clock + 1
  /\ UNCHANGED <<db, faults, env>>

\* the query request r awaits has a client and can run
Ready(r, pc) ==
  /\ reqs[r].pc = pc
  /\ ClientOf(pool, <<r, 1>>) # 0
  /\ ~Blocked(db, pool, ClientOf(pool, <<r, 1>>), reqs[r].stmt)

FaultChoices == IF faults > 0 THEN {TRUE, FALSE} ELSE {FALSE}

\* query q, statement st, completes on its client: the store's answer, the
\* committed rows and the pool once pool.query has released the client
Settled(q, st, fault) ==
  LET c == ClientOf(pool, q) IN
  CHOOSE s \in {[a |-> a,
                 db |-> Committed(db, pool, c, st, a),
                 pool |-> Release([pool EXCEPT !.conns[c] = Session(pool, c, st, a)],
                                  c, a.err # "")] :
                  a \in {Answer(db, pool, c, st, clock, fault)}} : TRUE

\* the query request r awaits completes
Completed(r, fault) == Settled(<<r, 1>>, reqs[r].stmt, fault)

\* res.status(status).json(...)
\* the fields of res.status(500).json({ error: ..., details: err.message })
ServerFault == {"error", "details"}

Reply(r, p, status, data) ==
  /\ reqs' = [reqs EXCEPT ![r].pc = "done", ![r].status = status, ![r].data = data,
                          ![r].stmt = NoStmt, ![r].fault = (faults' # faults),
                          ![r].before = db, ![r].after = db']
  /\ pool' = p

\* await pool.query(st)
Query(r, p, pc, k, st) ==
  /\ reqs' = [reqs EXCEPT ![r].pc = pc, ![r].k = k, ![r].stmt = st]
  /\ pool' = Pulse(Connect(p, <<r, 1>>))

Spend(fault) == faults' = IF fault THEN faults - 1 ELSE faults

\* the identifiers uuidv4() hands out, in order
FreshIds == <<"n1", "n2", "n3", "n4", "n5">>

uuidv4 == FreshIds[nextId + 1]

(* --------------------- requests that reach no handler ----------------- *)
\* no route of the router matches: the application's last middleware answers
RouteNotFound(r) ==
  \E q \in env.requests :
    /\ Admit(r, q)
    /\ q.route = 0
    /\ Answered(r, q, 404)

\* validateUUID answers 400 and the handler never runs
InvalidUUID(r) ==
  \E q \in env.requests :
    /\ Admit(r, q)
    /\ q.route # 0
    /\ Routes[q.route].mw /\ ~validateUUID(q.route, q.path)
    /\ Answered(r, q, 400)

(* ------------------------- POST / (institution) ----------------------- *)
\* the checks the handler makes on the payload before it builds its statement,
\* leaving the e-mail check out
InstitutionCreateInvalidNoEmail(body) ==
  \/ Falsy(Get(body, "name")) \/ Falsy(Get(body, "category_id")) \/ Falsy(Get(body, "subtype_id"))
  \/ ~Falsy(Get(body, "lat")) /\ (Lt(Get(body, "lat"), -90) \/ Gt(Get(body, "lat"), 90))
  \/ ~Falsy(Get(body, "lng")) /\ (Lt(Get(body, "lng"), -180) \/ Gt(Get(body, "lng"), 180))

\* !name || !category_id || !subtype_id, lat && (lat < -90 || lat > 90),
\* lng && (lng < -180 || lng > 180), email_principal && !regex.test(email_principal)
InstitutionCreateInvalid(body) ==
  \/ Falsy(Get(body, "name")) \/ Falsy(Get(body, "category_id")) \/ Falsy(Get(body, "subtype_id"))
  \/ ~Falsy(Get(body, "lat")) /\ (Lt(Get(body, "lat"), -90) \/ Gt(Get(body, "lat"), 90))
  \/ ~Falsy(Get(body, "lng")) /\ (Lt(Get(body, "lng"), -180) \/ Gt(Get(body, "lng"), 180))
  \/ ~Falsy(Get(body, "email_principal")) /\ ~emailRegex(Chars(Get(body, "email_principal").s))

\* INSERT INTO institution (id, <the twenty editable columns>, last_update)
\* VALUES ($1, ..., $21, NOW()) RETURNING *
InstitutionCreateQuery(id, body) ==
  Insert("institution", <<"id">> \o allowedFields,
         [i \in 1..(Len(allowedFields) + 1) |-> Ph(i)], {"last_update"},
         <<Str(id)>> \o [i \in DOMAIN allowedFields |-> Get(body, allowedFields[i])])

InstitutionCreate(r) ==
  \E q \in env.requests :
    /\ Enter(r, q, "institutionCreate")
    /\ IF InstitutionCreateInvalid(q.body)
       THEN Answered(r, q, 400)
       ELSE /\ Started(r, q, "institutionCreate", InstitutionCreateQuery(uuidv4, q.body))
            /\ nextId' = nextId + 1

\* the INSERT has answered
InstitutionCreateResult(r) ==
  /\ Ready(r, "institutionCreate")
  /\ \E fault \in FaultChoices :
       \E s \in {Completed(r, fault)} :
       /\ db' = s.db /\ Spend(fault)
       /\ IF s.a.err = "23505" THEN Reply(r, s.pool, 409, {})
          ELSE IF s.a.err = "23503" THEN Reply(r, s.pool, 400, {})
          ELSE IF s.a.err # "" THEN Reply(r, s.pool, 500, ServerFault)
          ELSE Reply(r, s.pool, 201, s.a.rows)
  /\ UNCHANGED <<clock, nextId, env>>

(* ------------------------- PUT /:id (institution) --------------------- *)
\* the keys of the payload that are editable columns (the statement pairs each
\* with its own placeholder, so only the pairing matters, not the order)
\* every key of the payload that is a column, the identifier included
InstitutionUpdatesUnfiltered(body) ==
  LET given(f) == f \in DOMAIN body IN SelectSeq(<<"id">> \o allowedFields, given)

InstitutionUpdates(body) ==
  LET given(f) == f \in DOMAIN body IN SelectSeq(allowedFields, given)

\* an update that leaves the timestamp alone: UPDATE institution SET f=$i, ...
\* WHERE id=$n+1 RETURNING *
InstitutionUpdateQueryNoStamp(id, body) ==
  LET f == InstitutionUpdates(body)
      n == Len(f)
  IN Update("institution", [i \in 1..n |-> <<f[i], Ph(i)>>], {},
            << <<"id", Ph(n + 1)>> >>, [i \in 1..n |-> body[f[i]]] \o <<Str(id)>>)

\* UPDATE institution SET f=$i, ..., last_update=NOW() WHERE id=$n+1 RETURNING *
InstitutionUpdateQuery(id, body) ==
  LET f == InstitutionUpdates(body)
      n == Len(f)
  IN Update("institution", [i \in 1..n |-> <<f[i], Ph(i)>>], {"last_update"},
            << <<"id", Ph(n + 1)>> >>, [i \in 1..n |-> body[f[i]]] \o <<Str(id)>>)

InstitutionUpdate(r) ==
  \E q \in env.requests :
    /\ Enter(r, q, "institutionUpdate")
    /\ IF InstitutionUpdates(q.body) = <<>>
       THEN Answered(r, q, 400)
       ELSE /\ Started(r, q, "institutionUpdate", InstitutionUpdateQuery(q.path[1], q.body))
            /\ UNCHANGED nextId

\* the UPDATE has answered: 404 when it matched no row
InstitutionUpdateResult(r) ==
  /\ Ready(r, "institutionUpdate")
  /\ \E fault \in FaultChoices :
       \E s \in {Completed(r, fault)} :
       /\ db' = s.db /\ Spend(fault)
       /\ IF s.a.err # "" THEN Reply(r, s.pool, 500, ServerFault)
          ELSE IF s.a.rows = {} THEN Reply(r, s.pool, 404, {})
          ELSE Reply(r, s.pool, 200, s.a.rows)
  /\ UNCHANGED <<clock, nextId, env>>

(* ------------------------- DELETE /:id (institution) ------------------ *)
InstitutionDelete(r) ==
  \E q \in env.requests :
    /\ Enter(r, q, "institutionDelete")
    /\ Started(r, q, "institutionDelete.exists",
               Select("institution", << <<"id", Ph(1)>> >>, <<Str(q.path[1])>>))
    /\ UNCHANGED nextId

\* SELECT id FROM institution WHERE id=$1 has answered
InstitutionDeleteExists(r) ==
  /\ Ready(r, "institutionDelete.exists")
  /\ \E fault \in FaultChoices :
       \E s \in {Completed(r, fault)} :
       /\ db' = s.db /\ Spend(fault)
       /\ IF s.a.err # "" THEN Reply(r, s.pool, 500, ServerFault)
          ELSE IF s.a.rows = {} THEN Reply(r, s.pool, 404, {})
          ELSE Query(r, s.pool, "institutionDelete.begin", 0, Tx("BEGIN"))
  /\ UNCHANGED <<clock, nextId, env>>

\* the child tables taken from the last to the first
DeleteChildrenReversed(k, id) ==
  Delete(childTables[Len(childTables) + 1 - k], << <<"institution_id", Ph(1)>> >>, <<Str(id)>>)

\* for (const t of tables) DELETE FROM ${t} WHERE institution_id=$1
DeleteChildren(k, id) ==
  Delete(childTables[k], << <<"institution_id", Ph(1)>> >>, <<Str(id)>>)

\* BEGIN, one of the nine DELETEs or COMMIT has answered
InstitutionDeleteTxn(r) ==
  /\ \E pc \in {"institutionDelete.begin", "institutionDelete.child",
                "institutionDelete.row", "institutionDelete.commit"} : Ready(r, pc)
  /\ \E fault \in FaultChoices :
       \E s \in {Completed(r, fault)} :
       LET id == reqs[r].path[1]
           pc == reqs[r].pc
           k == reqs[r].k
       IN
       /\ db' = s.db /\ Spend(fault)
       /\ IF s.a.err # "" THEN
            IF pc = "institutionDelete.begin" THEN Reply(r, s.pool, 500, ServerFault)
            ELSE Query(r, s.pool, "institutionDelete.rollback", k, Tx("ROLLBACK"))
          ELSE IF pc = "institutionDelete.begin" \/ (pc = "institutionDelete.child" /\ k < Len(childTables))
            THEN Query(r, s.pool, "institutionDelete.child", k + 1, DeleteChildren(k + 1, id))
          ELSE IF pc = "institutionDelete.child"
            THEN Query(r, s.pool, "institutionDelete.row", k,
                       Delete("institution", << <<"id", Ph(1)>> >>, <<Str(id)>>))
          ELSE IF pc = "institutionDelete.row"
            THEN Query(r, s.pool, "institutionDelete.commit", k, Tx("COMMIT"))
          ELSE Reply(r, s.pool, 200, {})
  /\ UNCHANGED <<clock, nextId, env>>

\* ROLLBACK has answered; the error is thrown on to the outer catch
InstitutionDeleteRollback(r) ==
  /\ Ready(r, "institutionDelete.rollback")
  /\ \E fault \in FaultChoices :
       \E s \in {Completed(r, fault)} :
       /\ db' = s.db /\ Spend(fault)
       /\ Reply(r, s.pool, 500, ServerFault)
  /\ UNCHANGED <<clock, nextId, env>>

(* --------------------------- GET /:id/<relation> ---------------------- *)
RelationList(r) ==
  \E q \in env.requests :
    /\ Enter(r, q, "relationList")
    /\ Started(r, q, "relationList",
               Select(relations[Routes[q.route].rel].table,
                      << <<"institution_id", Ph(1)>> >>, <<Str(q.path[1])>>))
    /\ UNCHANGED nextId

RelationListResult(r) ==
  /\ Ready(r, "relationList")
  /\ \E fault \in FaultChoices :
       \E s \in {Completed(r, fault)} :
       /\ db' = s.db /\ Spend(fault)
       /\ IF s.a.err # "" THEN Reply(r, s.pool, 500, ServerFault) ELSE Reply(r, s.pool, 200, s.a.rows)
  /\ UNCHANGED <<clock, nextId, env>>

(* ----------------- the generic relations: one item by id -------------- *)
\* SELECT * FROM <table> WHERE id=$1 AND institution_id=$2
RelationGetQuery(k, id, itemId) ==
  Select(relations[k].table, << <<"id", Ph(1)>>, <<"institution_id", Ph(2)>> >>,
         <<Str(itemId), Str(id)>>)

\* a delete that names the child alone: DELETE FROM <table> WHERE id=$1
RelationDeleteQueryAnyOwner(k, id, itemId) ==
  Delete(relations[k].table, << <<"id", Ph(1)>> >>, <<Str(itemId)>>)

\* DELETE FROM <table> WHERE id=$1 AND institution_id=$2 RETURNING *
RelationDeleteQuery(k, id, itemId) ==
  Delete(relations[k].table, << <<"id", Ph(1)>>, <<"institution_id", Ph(2)>> >>,
         <<Str(itemId), Str(id)>>)

RelationGet(r) ==
  \E q \in env.requests :
    /\ Enter(r, q, "relationGet")
    /\ Started(r, q, "relationGet",
               RelationGetQuery(Routes[q.route].rel, q.path[1], q.path[3]))
    /\ UNCHANGED nextId

RelationDelete(r) ==
  \E q \in env.requests :
    /\ Enter(r, q, "relationDelete")
    /\ Started(r, q, "relationDelete",
               RelationDeleteQuery(Routes[q.route].rel, q.path[1], q.path[3]))
    /\ UNCHANGED nextId

\* the item query has answered: 404 when it matched no row
RelationItemResult(r) ==
  /\ \E pc \in {"relationGet", "relationDelete"} : Ready(r, pc)
  /\ \E fault \in FaultChoices :
       \E s \in {Completed(r, fault)} :
       /\ db' = s.db /\ Spend(fault)
       /\ IF s.a.err # "" THEN Reply(r, s.pool, 500, ServerFault)
          ELSE IF s.a.rows = {} THEN Reply(r, s.pool, 404, {})
          ELSE Reply(r, s.pool, 200, s.a.rows)
  /\ UNCHANGED <<clock, nextId, env>>

(* ----------------- the generic relations: create and update ----------- *)
\* the fields of `fields` the payload carries (hasOwnProperty), in their order
Present(fields, body) ==
  LET has(f) == f \in DOMAIN body IN SelectSeq(fields, has)

\* INSERT INTO <table> (id, institution_id, <fields>) VALUES ($1, $2, 3, 4, ...):
\* the text the handler builds for the field values is `${i + 3}`, the number alone
RelationCreateQuery(k, id, itemId, body) ==
  LET f == relations[k].fields IN
  Insert(relations[k].table, <<"id", "institution_id">> \o f,
         <<Ph(1), Ph(2)>> \o [i \in 1..Len(f) |-> Lit(i + 2)], {},
         <<Str(itemId), Str(id)>> \o [i \in 1..Len(f) |-> Get(body, f[i])])

\* UPDATE <table> SET f=1, ... WHERE id=n+1 AND institution_id=n+2: the text the
\* handler builds is `${f}=${i + 1}` and `id=${fields.length + 1}`, numbers alone
RelationUpdateQuery(k, id, itemId, body) ==
  LET f == Present(relations[k].fields, body)
      n == Len(f)
  IN Update(relations[k].table, [i \in 1..n |-> <<f[i], Lit(i)>>], {},
            << <<"id", Lit(n + 1)>>, <<"institution_id", Lit(n + 2)>> >>,
            [i \in 1..n |-> body[f[i]]] \o <<Str(itemId), Str(id)>>)

RelationCreate(r) ==
  \E q \in env.requests :
    LET k == Routes[q.route].rel IN
    /\ Enter(r, q, "relationCreate")
    /\ IF \E i \in DOMAIN relations[k].required : relations[k].required[i] \notin DOMAIN q.body
       THEN Answered(r, q, 400)
       ELSE /\ Started(r, q, "relationCreate", RelationCreateQuery(k, q.path[1], uuidv4, q.body))
            /\ nextId' = nextId + 1

RelationUpdate(r) ==
  \E q \in env.requests :
    LET k == Routes[q.route].rel IN
    /\ Enter(r, q, "relationUpdate")
    /\ IF Present(relations[k].fields, q.body) = <<>>
       THEN Answered(r, q, 400)
       ELSE /\ Started(r, q, "relationUpdate",
                       RelationUpdateQuery(k, q.path[1], q.path[3], q.body))
            /\ UNCHANGED nextId

\* the INSERT or UPDATE has answered
RelationWriteResult(r) ==
  /\ \E pc \in {"relationCreate", "relationUpdate"} : Ready(r, pc)
  /\ \E fault \in FaultChoices :
       \E s \in {Completed(r, fault)} :
       /\ db' = s.db /\ Spend(fault)
       /\ IF s.a.err = "23503" THEN Reply(r, s.pool, 400, {})
          ELSE IF s.a.err = "23505" THEN Reply(r, s.pool, 409, {})
          ELSE IF s.a.err # "" THEN Reply(r, s.pool, 500, ServerFault)
          ELSE IF reqs[r].pc = "relationCreate" THEN Reply(r, s.pool, 201, s.a.rows)
          ELSE IF s.a.rows = {} THEN Reply(r, s.pool, 404, {})
          ELSE Reply(r, s.pool, 200, s.a.rows)
  /\ UNCHANGED <<clock, nextId, env>>

(* ------------------- the reference lists (GET /categories, ...) ------- *)
\* the table a reference list reads
ReferenceTable(handler) ==
  CASE handler = "categoryList" -> "institution_category"
    [] handler = "subtypeList" -> "institution_subtype"
    [] handler = "contactTypeList" -> "contact_type"
    [] handler = "staffTypeList" -> "staff_type"
    [] handler = "utilityTypeList" -> "utility_type"

ReferenceLists ==
  {"categoryList", "subtypeList", "contactTypeList", "staffTypeList", "utilityTypeList"}

\* SELECT * FROM <table> ORDER BY label (the rows are kept as a set)
ReferenceList(r) ==
  \E q \in env.requests :
    /\ \E h \in ReferenceLists : Enter(r, q, h)
    /\ Started(r, q, "referenceList", Select(ReferenceTable(HandlerFor(q)), <<>>, <<>>))
    /\ UNCHANGED nextId

\* JOIN institution_category c ON s.category_id = c.id: each subtype with the
\* code and label of its category
SubtypeJoin(rows, cats) ==
  {[c \in DOMAIN x \cup {"category_code", "category_label"} |->
      IF c = "category_code" THEN y["code"]
      ELSE IF c = "category_label" THEN y["label"] ELSE x[c]] :
     <<x, y>> \in {p \in rows \X cats : p[1]["category_id"] = p[2]["id"]}}

ReferenceListResult(r) ==
  /\ Ready(r, "referenceList")
  /\ \E fault \in FaultChoices :
       \E s \in {Completed(r, fault)} :
       /\ db' = s.db /\ Spend(fault)
       /\ IF s.a.err # "" THEN Reply(r, s.pool, 500, ServerFault)
          ELSE IF HandlerOf(r) = "subtypeList"
            THEN Reply(r, s.pool, 200, SubtypeJoin(s.a.rows, db["institution_category"]))
          ELSE Reply(r, s.pool, 200, s.a.rows)
  /\ UNCHANGED <<clock, nextId, env>>

(* ---------------------- /:id/opening-hours --------------------------- *)
\* a look-up that compares the row id with the institution id:
\* SELECT id FROM opening_hour WHERE id = $1 AND day_of_week = $2
OpeningHourExistingQueryById(id, body) ==
  Select("opening_hour", << <<"id", Ph(1)>>, <<"day_of_week", Ph(2)>> >>,
         <<Str(id), Get(body, "day_of_week")>>)

\* SELECT id FROM opening_hour WHERE institution_id = $1 AND day_of_week = $2
OpeningHourExistingQuery(id, body) ==
  Select("opening_hour", << <<"institution_id", Ph(1)>>, <<"day_of_week", Ph(2)>> >>,
         <<Str(id), Get(body, "day_of_week")>>)

\* INSERT INTO opening_hour (id, institution_id, day_of_week, open_time, close_time)
\* VALUES ($1, $2, $3, $4, $5) RETURNING *
OpeningHourCreateQuery(id, ohId, body) ==
  Insert("opening_hour", <<"id", "institution_id", "day_of_week", "open_time", "close_time">>,
         <<Ph(1), Ph(2), Ph(3), Ph(4), Ph(5)>>, {},
         <<Str(ohId), Str(id), Get(body, "day_of_week"), Get(body, "open_time"),
           Get(body, "close_time")>>)

\* day_of_week < 1 || day_of_week > 7
DayOutOfRange(body) == Lt(Get(body, "day_of_week"), 1) \/ Gt(Get(body, "day_of_week"), 7)

OpeningHourCreate(r) ==
  \E q \in env.requests :
    /\ Enter(r, q, "openingHourCreate")
    /\ IF Get(q.body, "day_of_week") = Undefined \/ DayOutOfRange(q.body)
       THEN Answered(r, q, 400)
       ELSE /\ Started(r, q, "openingHourCreate.existing",
                       OpeningHourExistingQuery(q.path[1], q.body))
            /\ UNCHANGED nextId

\* the SELECT for the day has answered: 409 when it found a row, else the INSERT
OpeningHourCreateExisting(r) ==
  /\ Ready(r, "openingHourCreate.existing")
  /\ \E fault \in FaultChoices :
       \E s \in {Completed(r, fault)} :
       /\ db' = s.db /\ Spend(fault)
       /\ IF s.a.err = "" /\ s.a.rows = {}
          THEN /\ Query(r, s.pool, "openingHourCreate.insert", 0,
                        OpeningHourCreateQuery(reqs[r].path[1], uuidv4, reqs[r].body))
               /\ nextId' = nextId + 1
          ELSE /\ Reply(r, s.pool,
                        IF s.a.err = "23503" THEN 400 ELSE IF s.a.err # "" THEN 500 ELSE 409, {})
               /\ UNCHANGED nextId
  /\ UNCHANGED <<clock, env>>

\* the INSERT has answered
OpeningHourCreateResult(r) ==
  /\ Ready(r, "openingHourCreate.insert")
  /\ \E fault \in FaultChoices :
       \E s \in {Completed(r, fault)} :
       /\ db' = s.db /\ Spend(fault)
       /\ IF s.a.err = "23503" THEN Reply(r, s.pool, 400, {})
          ELSE IF s.a.err # "" THEN Reply(r, s.pool, 500, ServerFault)
          ELSE Reply(r, s.pool, 201, s.a.rows)
  /\ UNCHANGED <<clock, nextId, env>>

\* the keys of `updates`, in the order the handler adds them
OpeningHourUpdates(body) ==
  LET given(f) == Get(body, f) # Undefined
  IN SelectSeq(<<"day_of_week", "open_time", "close_time">>, given)

\* UPDATE opening_hour SET f=$i, ... WHERE id=$n+1 AND institution_id=$n+2 RETURNING *
OpeningHourUpdateQuery(id, ohId, body) ==
  LET f == OpeningHourUpdates(body)
      n == Len(f)
  IN Update("opening_hour", [i \in 1..n |-> <<f[i], Ph(i)>>], {},
            << <<"id", Ph(n + 1)>>, <<"institution_id", Ph(n + 2)>> >>,
            [i \in 1..n |-> body[f[i]]] \o <<Str(ohId), Str(id)>>)

\* DELETE FROM opening_hour WHERE id=$1 AND institution_id=$2 RETURNING *
OpeningHourDeleteQuery(id, ohId) ==
  Delete("opening_hour", << <<"id", Ph(1)>>, <<"institution_id", Ph(2)>> >>,
         <<Str(ohId), Str(id)>>)

OpeningHourUpdate(r) ==
  \E q \in env.requests :
    /\ Enter(r, q, "openingHourUpdate")
    /\ IF \/ Get(q.body, "day_of_week") # Undefined /\ DayOutOfRange(q.body)
          \/ OpeningHourUpdates(q.body) = <<>>
       THEN Answered(r, q, 400)
       ELSE /\ Started(r, q, "openingHourUpdate",
                       OpeningHourUpdateQuery(q.path[1], q.path[3], q.body))
            /\ UNCHANGED nextId

OpeningHourDelete(r) ==
  \E q \in env.requests :
    /\ Enter(r, q, "openingHourDelete")
    /\ Started(r, q, "openingHourDelete", OpeningHourDeleteQuery(q.path[1], q.path[3]))
    /\ UNCHANGED nextId

\* the UPDATE or DELETE has answered: 404 when it matched no row
OpeningHourItemResult(r) ==
  /\ \E pc \in {"openingHourUpdate", "openingHourDelete"} : Ready(r, pc)
  /\ \E fault \in FaultChoices :
       \E s \in {Completed(r, fault)} :
       /\ db' = s.db /\ Spend(fault)
       /\ IF s.a.err # "" THEN Reply(r, s.pool, 500, ServerFault)
          ELSE IF s.a.rows = {} THEN Reply(r, s.pool, 404, {})
          ELSE Reply(r, s.pool, 200, s.a.rows)
  /\ UNCHANGED <<clock, nextId, env>>

(* ------------- the generic relation handlers, first version ----------- *)
\* the handler's promise rejects and nothing catches it: the request stays
\* without a response, or a router that forwards rejections answers it with
\* its default error page (500, not the handlers' JSON body)
Escapes(r, p) ==
  \E outcome \in {"unhandled", "default"} :
    IF outcome = "default" THEN Reply(r, p, 500, {})
    ELSE /\ reqs' = [reqs EXCEPT ![r].pc = "unhandled", ![r].stmt = NoStmt,
                                 ![r].fault = (faults' # faults),
                                 ![r].before = db, ![r].after = db']
         /\ pool' = p

RelationListFirst(r) ==
  \E q \in env.requests :
    /\ Enter(r, q, "relationList")
    /\ Started(r, q, "relationList.first",
               Select(relations[Routes[q.route].rel].table,
                      << <<"institution_id", Ph(1)>> >>, <<Str(q.path[1])>>))
    /\ UNCHANGED nextId

RelationListFirstResult(r) ==
  /\ Ready(r, "relationList.first")
  /\ \E fault \in FaultChoices :
       \E s \in {Completed(r, fault)} :
       /\ db' = s.db /\ Spend(fault)
       /\ IF s.a.err # "" THEN Escapes(r, s.pool) ELSE Reply(r, s.pool, 200, s.a.rows)
  /\ UNCHANGED <<clock, nextId, env>>

\* the first version's relations: those of the second and opening_hours
relationsFirst ==
  relations \o
  << [name |-> "opening_hours", table |-> "opening_hour",
      fields |-> <<"day_of_week", "open_time", "close_time">>, required |-> <<>>] >>

\* the relation whose create route, /:id/<name>, the path of q matches (0: none)
FirstRelation(q) ==
  IF Len(q.path) = 2 /\ \E k \in DOMAIN relationsFirst : relationsFirst[k].name = q.path[2]
  THEN CHOOSE k \in DOMAIN relationsFirst : relationsFirst[k].name = q.path[2]
  ELSE 0

\* INSERT INTO table (id,institution_id,fields) VALUES ($1,$2,$3,...) RETURNING *
RelationCreateFirstQuery(k, id, itemId, body) ==
  LET f == relationsFirst[k].fields IN
  Insert(relationsFirst[k].table, <<"id", "institution_id">> \o f,
         [i \in 1..(Len(f) + 2) |-> Ph(i)], {},
         <<Str(itemId), Str(id)>> \o [i \in 1..Len(f) |-> Get(body, f[i])])

RelationCreateFirst(r) ==
  \E q \in env.requests :
    LET k == FirstRelation(q) IN
    /\ Admit(r, q)
    /\ q.method = "POST" /\ k # 0 /\ uuidRegex(Chars(q.path[1]))
    /\ IF \E i \in DOMAIN relationsFirst[k].fields :
            Get(q.body, relationsFirst[k].fields[i]) = Undefined
       THEN Answered(r, q, 400)
       ELSE /\ Started(r, q, "relationCreate.first",
                       RelationCreateFirstQuery(k, q.path[1], uuidv4, q.body))
            /\ nextId' = nextId + 1

RelationCreateFirstResult(r) ==
  /\ Ready(r, "relationCreate.first")
  /\ \E fault \in FaultChoices :
       \E s \in {Completed(r, fault)} :
       /\ db' = s.db /\ Spend(fault)
       /\ IF s.a.err # "" THEN Escapes(r, s.pool) ELSE Reply(r, s.pool, 201, s.a.rows)
  /\ UNCHANGED <<clock, nextId, env>>

(* ------------- DELETE /categories/:id and /subtypes/:id --------------- *)
\* the table each of the two handlers deletes from
ReferenceDeleteTable(handler) ==
  IF handler = "categoryDelete" THEN "institution_category" ELSE "institution_subtype"

ReferenceDelete(r) ==
  \E q \in env.requests :
    \E handler \in {"categoryDelete", "subtypeDelete"} :
      /\ Enter(r, q, handler)
      /\ Started(r, q, "referenceDelete",
                 Delete(ReferenceDeleteTable(handler), << <<"id", Ph(1)>> >>, <<Str(q.path[2])>>))
      /\ UNCHANGED nextId

\* every store error answered as a server fault
ReferenceDeleteStatusUnclassified(err, rows) ==
  IF err # "" THEN 500 ELSE IF rows = {} THEN 404 ELSE 200

\* if (!result.rows.length) 404; res.json(...); catch: 23503 -> 409, else 500
ReferenceDeleteStatus(err, rows) ==
  IF err = "23503" THEN 409
  ELSE IF err # "" THEN 500
  ELSE IF rows = {} THEN 404
  ELSE 200

ReferenceDeleteResult(r) ==
  /\ Ready(r, "referenceDelete")
  /\ \E fault \in FaultChoices :
       \E s \in {Completed(r, fault)} :
       /\ db' = s.db /\ Spend(fault)
       /\ Reply(r, s.pool, ReferenceDeleteStatus(s.a.err, s.a.rows),
                IF s.a.err \notin {"", "23503"} THEN ServerFault ELSE {})
  /\ UNCHANGED <<clock, nextId, env>>

(* ------------- PUT /categories/:id and PUT /subtypes/:id -------------- *)
\* the columns the handler reads from req.body
ReferenceUpdateFields(handler) ==
  IF handler = "categoryUpdate" THEN <<"code", "label">> ELSE <<"category_id", "code", "label">>

\* updates: the fields of req.body that are truthy, in the handler's order
ReferenceUpdates(handler, body) ==
  LET given(f) == ~Falsy(Get(body, f)) IN SelectSeq(ReferenceUpdateFields(handler), given)

\* UPDATE <table> SET f=$i, ... WHERE id=$n+1 RETURNING *
ReferenceUpdateQuery(handler, id, body) ==
  LET f == ReferenceUpdates(handler, body)
      n == Len(f)
  IN Update(IF handler = "categoryUpdate" THEN "institution_category" ELSE "institution_subtype",
            [i \in 1..n |-> <<f[i], Ph(i)>>], {},
            << <<"id", Ph(n + 1)>> >>, [i \in 1..n |-> body[f[i]]] \o <<Str(id)>>)

ReferenceUpdate(r) ==
  \E q \in env.requests :
    \E handler \in {"categoryUpdate", "subtypeUpdate"} :
      /\ Enter(r, q, handler)
      /\ IF ReferenceUpdates(handler, q.body) = <<>>
         THEN Answered(r, q, 400)
         ELSE /\ Started(r, q, "referenceUpdate", ReferenceUpdateQuery(handler, q.path[2], q.body))
              /\ UNCHANGED nextId

\* the UPDATE has answered: 404 without a row; catch: 23505 -> 409, and for a
\* subtype 23503 -> 400, else 500
ReferenceUpdateResult(r) ==
  /\ Ready(r, "referenceUpdate")
  /\ \E fault \in FaultChoices :
       \E s \in {Completed(r, fault)} :
       /\ db' = s.db /\ Spend(fault)
       /\ IF s.a.err = "23505" THEN Reply(r, s.pool, 409, {})
          ELSE IF s.a.err = "23503" /\ HandlerOf(r) = "subtypeUpdate" THEN Reply(r, s.pool, 400, {})
          ELSE IF s.a.err # "" THEN Reply(r, s.pool, 500, ServerFault)
          ELSE IF s.a.rows = {} THEN Reply(r, s.pool, 404, {})
          ELSE Reply(r, s.pool, 200, s.a.rows)
  /\ UNCHANGED <<clock, nextId, env>>

(* ------------- POST of the reference and geography entities ----------- *)
\* the nine create handlers: the table, the fields of req.body that must be
\* truthy, the columns inserted after id, and the store errors the catch
\* answers with a status of their own
ReferenceCreates ==
  LET flat(table, last) ==
        [table |-> table, required |-> <<"code", last>>, cols |-> <<"code", last>>,
         classified |-> {"23505"}]
      child(table, parent, last) ==
        [table |-> table, required |-> <<parent, "code", last>>,
         cols |-> <<parent, "code", last>>, classified |-> {"23505", "23503"}]
  IN [categoryCreate |-> flat("institution_category", "label"),
      subtypeCreate |-> child("institution_subtype", "category_id", "label"),
      contactTypeCreate |-> flat("contact_type", "label"),
      staffTypeCreate |-> flat("staff_type", "label"),
      utilityTypeCreate |-> flat("utility_type", "label"),
      regionCreate |-> flat("region", "name"),
      districtCreate |-> child("district", "region_id", "name"),
      communeCreate |-> child("commune", "district_id", "name"),
      streetCreate |->
        [table |-> "street", required |-> <<"commune_id", "name">>,
         cols |-> <<"commune_id", "name", "postal_code">>, classified |-> {"23503"}]]

\* INSERT INTO table (id, cols) VALUES ($1, $2, ...) RETURNING *
ReferenceCreateQuery(handler, id, body) ==
  LET cols == ReferenceCreates[handler].cols IN
  Insert(ReferenceCreates[handler].table, <<"id">> \o cols,
         [i \in 1..(Len(cols) + 1) |-> Ph(i)], {},
         <<Str(id)>> \o [i \in 1..Len(cols) |-> Get(body, cols[i])])

ReferenceCreate(r) ==
  \E q \in env.requests :
    \E handler \in DOMAIN ReferenceCreates :
      /\ Enter(r, q, handler)
      /\ IF \E i \in DOMAIN ReferenceCreates[handler].required :
              Falsy(Get(q.body, ReferenceCreates[handler].required[i]))
         THEN Answered(r, q, 400) /\ UNCHANGED nextId
         ELSE /\ Started(r, q, "referenceCreate", ReferenceCreateQuery(handler, uuidv4, q.body))
              /\ nextId' = nextId + 1

\* catch: 23505 -> 409 and 23503 -> 400 where the handler has the branch,
\* 500 otherwise; 201 without an error
ReferenceCreateStatus(handler, err) ==
  IF err = "" THEN 201
  ELSE IF err \notin ReferenceCreates[handler].classified THEN 500
  ELSE IF err = "23505" THEN 409
  ELSE 400

ReferenceCreateResult(r) ==
  /\ Ready(r, "referenceCreate")
  /\ \E fault \in FaultChoices :
       \E s \in {Completed(r, fault)} :
       /\ db' = s.db /\ Spend(fault)
       /\ Reply(r, s.pool, ReferenceCreateStatus(HandlerOf(r), s.a.err),
                IF s.a.err = "" THEN s.a.rows
                ELSE IF ReferenceCreateStatus(HandlerOf(r), s.a.err) = 500 THEN ServerFault
                ELSE {})
  /\ UNCHANGED <<clock, nextId, env>>

(* --------------------------------- GET / ------------------------------ *)
\* the ten filters in the order the handler tests them: the key of req.query,
\* the column it restricts and how (code: the id of the row of `table` whose
\* column `on` has the value)
ListFilters ==
  LET sub(key, col, table, on) ==
        [key |-> key, kind |-> "code", col |-> col, table |-> table, on |-> on]
      cmp(key, kind, col) == [key |-> key, kind |-> kind, col |-> col, table |-> "", on |-> ""]
  IN << sub("category", "category_id", "institution_category", "code"),
        sub("subtype", "subtype_id", "institution_subtype", "code"),
        sub("region", "region_id", "region", "code"),
        sub("district", "district_id", "district", "code"),
        sub("commune", "commune_id", "commune", "code"),
        sub("street", "street_id", "street", "name"),
        cmp("name", "like", "name"),
        cmp("status", "eq", "status"),
        cmp("min_capacity", "ge", "capacity"),
        cmp("max_capacity", "le", "capacity") >>

\* parseInt(v) of a number or a decimal numeral; NaN for any other text
ParseInt(v) ==
  IF v.t = "number" THEN v
  ELSE IF v.t = "string" /\ \E n \in DOMAIN Decimals : Decimals[n] = v.s
    THEN Num(CHOOSE n \in DOMAIN Decimals : Decimals[n] = v.s)
  ELSE V("NaN", 0, "")

\* LIMIT $n+2 OFFSET $n+1: the two placeholders the wrong way round
PagingSwapped(n) == [limit |-> Ph(n + 2), offset |-> Ph(n + 1)]

\* LIMIT $${params.length+1} OFFSET $${params.length+2}
Paging(n) == [limit |-> Ph(n + 1), offset |-> Ph(n + 2)]

\* limit = 100, offset = 0 unless req.query has them
ListDefault(query, key) ==
  IF Get(query, key) # Undefined THEN Get(query, key)
  ELSE IF key = "limit" THEN Num(100) ELSE IF key = "offset" THEN Num(0) ELSE Str("name")

\* a placeholder that leaves one number out
NextPlaceholderSkipping(n) == Ph(n + 2)

\* $${params.length+1}, n being params.length when the condition is pushed
NextPlaceholder(n) == Ph(n + 1)

\* conditions and params as the handler pushes them, one of each for every
\* filter that is present and not empty, and the statement built from them
InstitutionListQuery(query) ==
  LET Given(f) == ~Falsy(Get(query, f.key))
      given == SelectSeq(ListFilters, Given)
      n == Len(given)
  IN [op |-> "LIST", table |-> "institution", cols |-> <<>>, vals |-> <<>>, set |-> <<>>,
      now |-> {},
      where |-> [i \in 1..n |->
                   [kind |-> given[i].kind, col |-> given[i].col, table |-> given[i].table,
                    on |-> given[i].on, ph |-> NextPlaceholder(i - 1)]],
      sort |-> ListDefault(query, "sort").s,
      limit |-> Paging(n).limit,
      offset |-> Paging(n).offset,
      params |-> [i \in 1..n |->
                    IF given[i].kind = "like"
                    THEN V("pattern", 0,
                           <<"%">> \o Lower(Chars(Get(query, given[i].key).s)) \o <<"%">>)
                    ELSE Get(query, given[i].key)]
                 \o <<ParseInt(ListDefault(query, "limit")),
                      ParseInt(ListDefault(query, "offset"))>>]

InstitutionList(r) ==
  \E q \in env.requests :
    /\ Enter(r, q, "institutionList")
    /\ Started(r, q, "institutionList", InstitutionListQuery(q.body))
    /\ UNCHANGED nextId

\* { data: result.rows, count: result.rows.length, limit: parseInt(limit),
\* offset: parseInt(offset) }
InstitutionListResult(r) ==
  /\ Ready(r, "institutionList")
  /\ \E fault \in FaultChoices :
       \E s \in {Completed(r, fault)} :
       /\ db' = s.db /\ Spend(fault)
       /\ IF s.a.err # "" THEN Reply(r, s.pool, 500, ServerFault)
          ELSE Reply(r, s.pool, 200,
                     [data |-> s.a.rows, count |-> Len(s.a.rows),
                      limit |-> ParseInt(ListDefault(reqs[r].body, "limit")),
                      offset |-> ParseInt(ListDefault(reqs[r].body, "offset"))])
  /\ UNCHANGED <<clock, nextId, env>>

(* ------------------------------- GET /:id ----------------------------- *)
\* SELECT i.*, ... FROM institution i LEFT JOIN ... WHERE i.id = $1: the LEFT
\* JOINs add columns to the institution's row and neither add nor remove a row
InstitutionGet(r) ==
  \E q \in env.requests :
    /\ Enter(r, q, "institutionGet")
    /\ Started(r, q, "institutionGet",
               Select("institution", << <<"id", Ph(1)>> >>, <<Str(q.path[1])>>))
    /\ UNCHANGED nextId

\* the k-th query of the Promise.all, without its JOIN
InstitutionGetChildQuery(k, id) ==
  Select(childTables[k], << <<"institution_id", Ph(1)>> >>, <<Str(id)>>)

\* JOIN <type table> t ON x.<type>_id = t.id of the first three queries: each
\* row that names a type, with the code and label of the type
ChildJoin(k, rows, d) ==
  LET on == <<"contact_type_id", "staff_type_id", "utility_type_id">>
      types == <<"contact_type", "staff_type", "utility_type">>
      code == <<"contact_type_code", "staff_code", "utility_code">>
      label == <<"contact_type_label", "staff_label", "utility_label">>
  IN IF k > Len(on) THEN rows
     ELSE {[c \in DOMAIN p[1] \cup {code[k], label[k]} |->
              IF c = code[k] THEN p[2]["code"]
              ELSE IF c = label[k] THEN p[2]["label"] ELSE p[1][c]] :
             p \in {p \in rows \X d[types[k]] : p[1][on[k]] = p[2]["id"]}}

\* the institution's query has answered: 404 without a row, otherwise the
\* eight pool.query calls of the Promise.all are made one after the other,
\* before the handler awaits
InstitutionGetFound(r) ==
  /\ Ready(r, "institutionGet")
  /\ \E fault \in FaultChoices :
       \E s \in {Completed(r, fault)} :
       /\ db' = s.db /\ Spend(fault)
       /\ IF s.a.err # "" THEN Reply(r, s.pool, 500, ServerFault)
          ELSE IF s.a.rows = {} THEN Reply(r, s.pool, 404, {})
          ELSE /\ reqs' = [reqs EXCEPT ![r].pc = "institutionGet.all", ![r].stmt = NoStmt,
                                       ![r].data = [k \in {0} |-> s.a.rows]]
               /\ pool' = Pulse([s.pool EXCEPT !.pending =
                                   @ \o [k \in 1..Len(childTables) |-> <<r, k>>]])
  /\ UNCHANGED <<clock, nextId, env>>

\* Promise.all is fulfilled once only a single result is in
PromiseAny(got) == \E k \in 1..Len(childTables) : k \in DOMAIN got

\* Promise.all is fulfilled once every one of its promises is
PromiseAll(got) == \A k \in 1..Len(childTables) : k \in DOMAIN got

\* one of the eight queries completes. While the Promise.all is pending, a
\* failure rejects it and the catch answers 500, a result is kept, and with
\* the last result the handler answers; once the Promise.all is settled the
\* results and errors of the other queries are dropped
InstitutionGetChild(r) ==
  /\ HandlerOf(r) = "institutionGet"
  /\ reqs[r].pc \in {"institutionGet.all", "done"}
  /\ \E k \in Outstanding(r) :
       /\ ClientOf(pool, <<r, k>>) # 0
       /\ \E fault \in FaultChoices :
            \E s \in {Settled(<<r, k>>, InstitutionGetChildQuery(k, reqs[r].path[1]), fault)} :
            LET got == [j \in DOMAIN reqs[r].data \cup {k} |->
                          IF j = k THEN ChildJoin(k, s.a.rows, db) ELSE reqs[r].data[j]]
            IN
            /\ db' = s.db /\ Spend(fault)
            /\ IF reqs[r].pc = "done" THEN reqs' = reqs /\ pool' = s.pool
               ELSE IF s.a.err # "" THEN Reply(r, s.pool, 500, ServerFault)
               ELSE IF PromiseAll(got) THEN Reply(r, s.pool, 200, got)
               ELSE reqs' = [reqs EXCEPT ![r].data = got] /\ pool' = s.pool
  /\ UNCHANGED <<clock, nextId, env>>

(* ------------------------------ initial state ------------------------- *)
Row(table, f) == [c \in Columns(table) |-> IF c \in DOMAIN f THEN f[c] ELSE Null]

Label(id, code) == [id |-> Str(id), code |-> Str(code), label |-> Str("x")]

SeedInstitution(id, name) ==
  Row("institution",
      [id |-> Str(id), name |-> Str(name), category_id |-> Str("k1"),
       subtype_id |-> Str("s1"), status |-> Str("ouvert"), last_update |-> Num(0)])

\* a store that already holds two institutions, each with a contact and an
\* opening hour, one of them with a row in every other child table, and the
\* reference rows they name
SeedRows ==
  [t \in Tables |->
     CASE t = "institution_category" -> {Row(t, Label("k1", "edu"))}
       [] t = "institution_subtype" ->
            {Row(t, [id |-> Str("s1"), category_id |-> Str("k1"),
                     code |-> Str("prim"), label |-> Str("x")])}
       [] t = "contact_type" -> {Row(t, Label("t1", "tel"))}
       [] t = "institution" -> {SeedInstitution("i1", "A"), SeedInstitution("i2", "B")}
       [] t = "contact" ->
            {Row(t, [id |-> Str("ca"), institution_id |-> Str("i1"),
                     contact_type_id |-> Str("t1"), value |-> Str("x")]),
             Row(t, [id |-> Str("cb"), institution_id |-> Str("i2"),
                     contact_type_id |-> Str("t1"), value |-> Str("y")])}
       [] t = "photo" ->
            {Row(t, [id |-> Str("pa"), institution_id |-> Str("i1"), url |-> Str("x")])}
       [] t = "opening_hour" ->
            {Row(t, [id |-> Str("oa"), institution_id |-> Str("i1"), day_of_week |-> Num(1)]),
             Row(t, [id |-> Str("ob"), institution_id |-> Str("i2"), day_of_week |-> Num(1)])}
       [] t \in Range(childTables) ->
            {Row(t, [id |-> Str("ca"), institution_id |-> Str("i1")])}
       [] OTHER -> {}]

\* the pool after start-up: the client that ran SELECT NOW() is idle
StartedPool ==
  [conns |-> [c \in Clients |-> IF c = 1 THEN [Closed EXCEPT !.open = TRUE] ELSE Closed],
   idle |-> <<1>>, pending |-> <<>>]

Env(requests, width, solo) == [requests |-> requests, width |-> width, solo |-> solo]

InitWith(e, f) ==
  /\ db = SeedRows
  /\ pool = StartedPool
  /\ reqs = [r \in Slots |-> FreeSlot]
  /\ clock = 0
  /\ nextId = 0
  /\ faults = f
  /\ env = e

(* ------------------ institution delete under a shared pool ------------ *)
\* one institution delete at a time, next to requests that only read
DeleteRequests ==
  {Request("DELETE", <<"i1">>, NoBody), Request("GET", <<"i1", "contacts">>, NoBody)}

InitDelete == InitWith(Env(DeleteRequests, MaxSlots, {"institutionDelete"}), MaxFaults)

NextDelete ==
  \E r \in Slots :
    \/ InstitutionDelete(r)
    \/ InstitutionDeleteExists(r)
    \/ InstitutionDeleteTxn(r)
    \/ InstitutionDeleteRollback(r)
    \/ RelationList(r)
    \/ RelationListResult(r)

SpecDelete == InitDelete /\ [][NextDelete]_vars

\* what the store holds for institution id: its row and its rows in every child table
Owned(d, id) ==
  [t \in Tables |->
     IF t = "institution" THEN {x \in d[t] : x["id"] = Str(id)}
     ELSE IF t \in Range(childTables) THEN {x \in d[t] : x["institution_id"] = Str(id)}
     ELSE {}]

\* C1: once an institution delete has answered with an error, the store holds
\* for that institution exactly the rows it held when the request arrived
C1_DeleteAllOrNothing ==
  \A r \in Slots :
    (HandlerOf(r) = "institutionDelete" /\ reqs[r].pc = "done" /\ reqs[r].status = 500)
      => Owned(db, reqs[r].path[1]) = Owned(reqs[r].pre, reqs[r].path[1])

(* ------------------------- the generic relations ---------------------- *)
RelationRequests ==
  {Request(m, <<i, relations[k].name, "ca">>, NoBody) :
     m \in {"GET", "DELETE"}, i \in {"i1", "i2"}, k \in DOMAIN relations}
  \cup
  {Request(m, p, NoBody) :
     m \in {"GET", "DELETE"},
     p \in {<<"i1", "contacts", "i9">>, <<"i1", "photos", "pa">>,
            <<"i2", "photos", "pa">>}}
  \cup
  {Request("PUT", p, b) :
     p \in {<<"i1", "contacts", "ca">>, <<"i2", "contacts", "ca">>},
     b \in {[value |-> Str("y")], [bogus |-> Str("y")]}}
  \cup
  {Request("POST", p, b) :
     p \in {<<"i1", "contacts">>, <<"i9", "contacts">>},
     b \in {[contact_type_id |-> Str("t1"), value |-> Str("y")], [value |-> Str("y")]}}
  \cup {Request("POST", <<"i1", "photos">>, [url |-> Str("y")])}

InitRelation == InitWith(Env(RelationRequests, 1, {}), 0)

NextRelation ==
  \E r \in Slots :
    \/ RelationGet(r)
    \/ RelationDelete(r)
    \/ RelationItemResult(r)
    \/ RelationCreate(r)
    \/ RelationUpdate(r)
    \/ RelationWriteResult(r)

SpecRelation == InitRelation /\ [][NextRelation]_vars

\* request r has been answered by `handler`
Done(r, handler) == HandlerOf(r) = handler /\ reqs[r].pc = "done"

\* the relation of the route request r took
Rel(r) == relations[Routes[reqs[r].route].rel]

\* the rows of `table` in d with that child id and that institution id
Pair(d, table, id, itemId) ==
  {x \in d[table] : x["id"] = Str(itemId) /\ x["institution_id"] = Str(id)}

\* C2: get-one returns and delete removes exactly the rows that carry both the
\* child id and the institution id of the path; when no row carries both (the
\* child of another institution included) the answer is 404, nothing is
\* returned and no row of any table changes
C2_ScopedByPair ==
  \A r \in Slots :
    (Done(r, "relationGet") \/ Done(r, "relationDelete")) =>
      LET q == reqs[r]
          t == Rel(r).table
          hit == Pair(q.before, t, q.path[1], q.path[3])
      IN /\ q.status = IF hit = {} THEN 404 ELSE 200
         /\ q.data = hit
         /\ q.after = IF HandlerOf(r) = "relationDelete"
                      THEN [q.before EXCEPT ![t] = @ \ hit] ELSE q.before

\* a delete was asked for a child that exists under another institution
C2_Witness ==
  \E r \in Slots :
    /\ Done(r, "relationDelete") /\ reqs[r].status = 404
    /\ \E x \in reqs[r].before[Rel(r).table] :
         x["id"] = Str(reqs[r].path[3]) /\ x["institution_id"] # Str(reqs[r].path[1])

\* C3: an update that carries at least one descriptor field sets exactly those
\* fields of the one row with that child id and institution id and returns it,
\* or answers 404 and changes nothing when no row has the pair; its statement
\* binds every value and both ids to a placeholder of its own
C3_UpdateSuppliedFields ==
  /\ \A r \in Slots :
       (Done(r, "relationUpdate") /\ Present(Rel(r).fields, reqs[r].body) # <<>>) =>
         LET q == reqs[r]
             t == Rel(r).table
             hit == Pair(q.before, t, q.path[1], q.path[3])
             f == Range(Present(Rel(r).fields, q.body))
             new(x) == [c \in DOMAIN x |-> IF c \in f THEN q.body[c] ELSE x[c]]
         IN IF hit = {} THEN q.status = 404 /\ q.after = q.before
            ELSE /\ q.status = 200
                 /\ q.data = {new(x) : x \in hit}
                 /\ q.after = [q.before EXCEPT ![t] = (@ \ hit) \cup {new(x) : x \in hit}]
  /\ \A r \in Slots :
       reqs[r].pc = "relationUpdate" =>
         LET st == reqs[r].stmt IN
         /\ \A ct \in Terms(st) : ct[2].k = "ph"
         /\ {ct[2].n : ct \in Terms(st)} = 1..Len(st.params)

\* every id the store holds
Ids(d) == UNION {{x["id"] : x \in d[t]} : t \in Tables}

\* C4: a create inserts if and only if every required field is in the payload
\* and the institution exists; it then adds exactly one row with a fresh id,
\* the path's institution id and the payload's values, and answers 201 with
\* it; a payload that lacks a required field is answered 400 and adds nothing
C4_CreateIffRequired ==
  \A r \in Slots :
    Done(r, "relationCreate") =>
      LET q == reqs[r]
          t == Rel(r).table
          id == q.path[1]
          missing == \E i \in DOMAIN Rel(r).required : Rel(r).required[i] \notin DOMAIN q.body
          exists == \E x \in q.before["institution"] : x["id"] = Str(id)
          added == q.after[t] \ q.before[t]
      IN /\ q.after = [q.before EXCEPT ![t] = @ \cup added]
         /\ IF missing THEN q.status = 400 /\ added = {}
            ELSE IF ~exists THEN added = {}
            ELSE /\ q.status = 201
                 /\ Cardinality(added) = 1
                 /\ q.data = added
                 /\ \A x \in added :
                      /\ x["id"] \notin Ids(q.before)
                      /\ x["institution_id"] = Str(id)
                      /\ \A i \in DOMAIN Rel(r).fields :
                           LET c == Rel(r).fields[i] IN
                           x[c] = IF c \in DOMAIN q.body THEN q.body[c] ELSE Null

(* --------------------------- opening hours ---------------------------- *)
\* opening-hour requests sent one after the other
HourRequests ==
  {Request("POST", <<i, "opening-hours">>, [day_of_week |-> d]) :
     i \in {"i1", "i2"}, d \in {Num(1), Num(2), Str("2")}}
  \cup
  {Request("POST", <<"i1", "opening-hours">>, b) :
     b \in {NoBody, [day_of_week |-> Num(0)], [day_of_week |-> Num(8)],
            [day_of_week |-> Null], [open_time |-> Str("x")]}}
  \cup
  {Request("POST", <<"i9", "opening-hours">>, [day_of_week |-> Num(2)]),
   Request("PUT", <<"i1", "opening-hours", "oa">>, [day_of_week |-> Num(2)]),
   Request("PUT", <<"i1", "opening-hours", "oa">>, [day_of_week |-> Num(8)]),
   Request("PUT", <<"i1", "opening-hours", "oa">>, NoBody),
   Request("PUT", <<"i1", "opening-hours", "ob">>, [open_time |-> Str("x")]),
   Request("DELETE", <<"i1", "opening-hours", "oa">>, NoBody),
   Request("DELETE", <<"i1", "opening-hours", "ob">>, NoBody)}

InitHours == InitWith(Env(HourRequests, 1, {}), 0)

NextHours ==
  \E r \in Slots :
    \/ OpeningHourCreate(r)
    \/ OpeningHourCreateExisting(r)
    \/ OpeningHourCreateResult(r)
    \/ OpeningHourUpdate(r)
    \/ OpeningHourDelete(r)
    \/ OpeningHourItemResult(r)

SpecHours == InitHours /\ [][NextHours]_vars

\* the opening hours d holds for institution id on the day v names
OnDay(d, id, v) ==
  {x \in d["opening_hour"] :
     x["institution_id"] = Str(id) /\ ~ToNumber(v).nan /\ x["day_of_week"] = Num(ToNumber(v).n)}

\* C6: a create for an (institution, day) pair that already has an opening
\* hour is answered 409 and adds no row; a create that succeeds found the pair
\* empty and leaves it with one row, so of successive creates for a pair at
\* most the first succeeds
C6_CreateConflicts ==
  \A r \in Slots :
    Done(r, "openingHourCreate") =>
      LET q == reqs[r]
          had == OnDay(q.before, q.path[1], Get(q.body, "day_of_week"))
          has == OnDay(q.after, q.path[1], Get(q.body, "day_of_week"))
      IN /\ had # {} => q.status = 409 /\ q.after = q.before
         /\ q.status = 201 => OnDay(q.pre, q.path[1], Get(q.body, "day_of_week")) = {}
                              /\ Cardinality(has) = 1

\* a create arrived for a pair that an earlier create had filled
C6_Witness ==
  \E r \in Slots :
    /\ Done(r, "openingHourCreate") /\ reqs[r].status = 409
    /\ \E x \in OnDay(db, reqs[r].path[1], Get(reqs[r].body, "day_of_week")) :
         x \notin SeedRows["opening_hour"]

(* ------------------- opening hours, requests in parallel -------------- *)
\* creates and updates for the same institution and day, sent without waiting
HourRaceRequests ==
  {Request("POST", <<"i1", "opening-hours">>, [day_of_week |-> Num(2)]),
   Request("PUT", <<"i1", "opening-hours", "oa">>, [day_of_week |-> Num(2)])}

InitHoursRace == InitWith(Env(HourRaceRequests, MaxSlots, {}), 0)

NextHoursRace ==
  \E r \in Slots :
    \/ OpeningHourCreate(r)
    \/ OpeningHourCreateExisting(r)
    \/ OpeningHourCreateResult(r)
    \/ OpeningHourUpdate(r)
    \/ OpeningHourItemResult(r)

SpecHoursRace == InitHoursRace /\ [][NextHoursRace]_vars

\* C7: no institution ever has two opening hours on the same day, and a create
\* or update that would put a second row on a day is answered 409: it changes
\* nothing and is never answered 500
C7_NoDuplicateDay ==
  /\ \A x, y \in db["opening_hour"] :
       (x["institution_id"] = y["institution_id"] /\ x["day_of_week"] = y["day_of_week"])
         => x = y
  /\ \A r \in Slots :
       (Done(r, "openingHourCreate") \/ Done(r, "openingHourUpdate")) =>
         LET q == reqs[r]
             others == {x \in OnDay(q.before, q.path[1], Get(q.body, "day_of_week")) :
                          Len(q.path) = 3 => x["id"] # Str(q.path[3])}
         IN /\ q.status # 500
            /\ others # {} => q.status = 409 /\ q.after = q.before

(* ------------------------------- routing ------------------------------ *)
\* requests whose path segments are literals of the router, malformed ids or
\* well-formed ids
RoutingRequests ==
  {Request("GET", <<p>>, NoBody) :
     p \in {"stats", "nearby", "categories", "subtypes", "contact-types", "staff-types",
            "utility-types", "not-a-uuid", "short"}}
  \cup
  {Request("DELETE", <<"i1", "opening-hours", "not-a-uuid">>, NoBody),
   Request("DELETE", <<"not-a-uuid", "opening-hours", "oa">>, NoBody),
   Request("DELETE", <<"i1", "opening-hours", "oa">>, NoBody),
   Request("PUT", <<"i1", "opening-hours", "short">>, [day_of_week |-> Num(2)]),
   Request("GET", <<"i1", "contacts", "not-a-uuid">>, NoBody),
   Request("DELETE", <<"i1", "contacts", "nohyphen">>, NoBody),
   Request("GET", <<"UP", "contacts", "ca">>, NoBody),
   Request("GET", <<"gg", "contacts", "ca">>, NoBody),
   Request("GET", <<"i1", "contacts", "ca">>, NoBody),
   Request("GET", <<"i1", "photos", "pa", "x">>, NoBody)}

InitRouting == InitWith(Env(RoutingRequests, 1, {}), 0)

NextRouting ==
  \E r \in Slots :
    \/ RouteNotFound(r)
    \/ InvalidUUID(r)
    \/ ReferenceList(r)
    \/ ReferenceListResult(r)
    \/ OpeningHourUpdate(r)
    \/ OpeningHourDelete(r)
    \/ OpeningHourItemResult(r)
    \/ RelationGet(r)
    \/ RelationDelete(r)
    \/ RelationItemResult(r)

SpecRouting == InitRouting /\ [][NextRouting]_vars

\* a segment of request r's path that stands for a record id is no UUID text
Malformed(r) ==
  \E i \in DOMAIN reqs[r].path :
    /\ Routes[reqs[r].route].pattern[i] \in ParamSegs
    /\ ~uuidRegex(Chars(reqs[r].path[i]))

\* C5: a request with a malformed id segment (:id, :itemId or :ohId) is
\* answered 400 before any query: it never awaits a statement, and the store
\* is as it was when the request arrived
C5_MalformedRejected ==
  \A r \in Slots :
    (reqs[r].pc # "free" /\ reqs[r].route # 0 /\ Malformed(r)) =>
      /\ reqs[r].pc = "done" /\ reqs[r].status = 400
      /\ reqs[r].after = reqs[r].pre

\* C8: a GET whose path is a literal single-segment path registered on the
\* router (stats and nearby among them) is handed to the route registered for
\* that path, not to /:id
C8_LiteralPathsReachHandler ==
  \A r \in Slots :
    (reqs[r].pc # "free" /\ reqs[r].method = "GET" /\ Len(reqs[r].path) = 1) =>
      \A i \in DOMAIN Routes :
        (Routes[i].method = "GET" /\ Routes[i].pattern = reqs[r].path)
          => /\ reqs[r].route = i
             /\ ~(reqs[r].pc = "done" /\ reqs[r].status = 400)

(* ------------------- institution create and update -------------------- *)
\* a payload that names an existing category and subtype
NewInstitution == [name |-> Str("y"), category_id |-> Str("k1"), subtype_id |-> Str("s1")]

\* f with the fields of g added or replaced
With(f, g) == [c \in DOMAIN f \cup DOMAIN g |-> IF c \in DOMAIN g THEN g[c] ELSE f[c]]

InstitutionRequests ==
  {Request("POST", <<>>, With(NewInstitution, b)) :
     b \in {NoBody, [lat |-> Num(91)], [lat |-> Num(-91)], [lng |-> Num(181)],
            [lng |-> Num(-181)], [lat |-> Num(45), lng |-> Num(120)],
            [name |-> Str("")], [name |-> Str("A")], [category_id |-> Str("i9")],
            [subtype_id |-> Str("i9")], [name |-> Str("A"), category_id |-> Str("i9")],
            [email_principal |-> Str("a@b")], [email_principal |-> Str("a@b.c")],
            [capacity |-> Str("x")]}}
  \cup
  {Request("POST", <<>>, b) :
     b \in {NoBody, [name |-> Str("y"), category_id |-> Str("k1")],
            [category_id |-> Str("k1"), subtype_id |-> Str("s1")]}}
  \cup
  {Request("PUT", <<i>>, b) :
     i \in {"i1", "i9"},
     b \in {NoBody, [bogus |-> Str("x")], [status |-> Str("ferme")],
            [status |-> Str("ferme"), id |-> Str("i9"), bogus |-> Str("x")],
            [name |-> Str("B")], [name |-> Str("A"), capacity |-> Num(5)],
            [category_id |-> Str("i9")], [lat |-> Num(91)], [lng |-> Num(-181)],
            [lat |-> Num(45), lng |-> Num(120)]}}

InitInstitution == InitWith(Env(InstitutionRequests, 1, {}), MaxFaults)

NextInstitution ==
  \E r \in Slots :
    \/ InstitutionCreate(r)
    \/ InstitutionCreateResult(r)
    \/ InstitutionUpdate(r)
    \/ InstitutionUpdateResult(r)

SpecInstitution == InitInstitution /\ [][NextInstitution]_vars

\* the editable columns a payload names
Supplied(body) == Range(allowedFields) \cap DOMAIN body

\* the store can read every editable value of the payload as its column's type
WellTyped(body) ==
  \A c \in Supplied(body) : Coerce(body[c], ColType("institution", c)).ok

\* institution x with the payload's editable values
Edited(x, body) ==
  [c \in DOMAIN x |->
     IF c \in Supplied(body) THEN Coerce(body[c], ColType("institution", c)).v ELSE x[c]]

\* the store accepts institution row y in place of the rows `olds` of d
Acceptable(d, olds, y) ==
  /\ \A c \in NotNull("institution") : y[c] # Null
  /\ ~UniqueViolation("institution", (d["institution"] \ olds) \cup {y})
  /\ ~ForeignKeyViolation(d, "institution", {y})

\* C9 as stated (store faults aside): without an editable key the answer is 400, for an unknown id
\* 404, both without a change; otherwise the institution takes exactly the
\* supplied editable values and a new timestamp and the answer is 200
C9_UpdateAsStated ==
  \A r \in Slots :
    (Done(r, "institutionUpdate") /\ ~reqs[r].fault) =>
      LET q == reqs[r]
          target == {x \in q.before["institution"] : x["id"] = Str(q.path[1])}
          others == q.before["institution"] \ target
      IN IF Supplied(q.body) = {} THEN q.status = 400 /\ q.after = q.before
         ELSE IF target = {} THEN q.status = 404 /\ q.after = q.before
         ELSE /\ q.status = 200
              /\ \E y \in q.after["institution"] :
                   /\ q.after = [q.before EXCEPT !["institution"] = others \cup {y}]
                   /\ \A x \in target :
                        /\ [y EXCEPT !["last_update"] = Null]
                             = [Edited(x, q.body) EXCEPT !["last_update"] = Null]
                        /\ y["last_update"] # x["last_update"]

\* C9, amended: as stated when the store accepts the edited row; an update
\* the store rejects (a value of the wrong type, a name another institution
\* has, a reference to a row that does not exist) or fails changes nothing
C9_UpdateWhitelisted ==
  \A r \in Slots :
    Done(r, "institutionUpdate") =>
      LET q == reqs[r]
          target == {x \in q.before["institution"] : x["id"] = Str(q.path[1])}
          others == q.before["institution"] \ target
      IN IF Supplied(q.body) = {} THEN q.status = 400 /\ q.after = q.before
         ELSE IF q.fault \/ ~WellTyped(q.body) THEN q.after = q.before
         ELSE IF target = {} THEN q.status = 404 /\ q.after = q.before
         ELSE IF \E x \in target : ~Acceptable(q.before, target, Edited(x, q.body))
           THEN q.after = q.before
         ELSE /\ q.status = 200
              /\ \E y \in q.after["institution"] :
                   /\ q.data = {y}
                   /\ q.after = [q.before EXCEPT !["institution"] = others \cup {y}]
                   /\ \A x \in target :
                        /\ [y EXCEPT !["last_update"] = Null]
                             = [Edited(x, q.body) EXCEPT !["last_update"] = Null]
                        /\ y["last_update"] # x["last_update"]

\* an update that carried keys outside the whitelist next to an editable one
\* was applied
C9_Witness ==
  \E r \in Slots :
    /\ Done(r, "institutionUpdate") /\ reqs[r].status = 200
    /\ DOMAIN reqs[r].body \ Range(allowedFields) # {}
    /\ reqs[r].after # reqs[r].before

\* name, category_id or subtype_id missing (or empty), or a coordinate out of range
CreateRefused(body) ==
  \/ \E c \in {"name", "category_id", "subtype_id"} : Falsy(Get(body, c))
  \/ Get(body, "lat").t = "number" /\ (Get(body, "lat").n < -90 \/ Get(body, "lat").n > 90)
  \/ Get(body, "lng").t = "number" /\ (Get(body, "lng").n < -180 \/ Get(body, "lng").n > 180)

\* the payload carries an e-mail address that is not of the shape local@domain.tld
BadEmail(body) ==
  /\ Get(body, "email_principal").t = "string" /\ Get(body, "email_principal").s # ""
  /\ ~emailRegex(Chars(Get(body, "email_principal").s))

\* another institution of d has the payload's name
NameTaken(d, body) == \E x \in d["institution"] : x["name"] = Get(body, "name")

\* the payload names a category, subtype or place d does not hold
BadReference(d, body) ==
  \E fk \in ForeignKeys("institution") :
    /\ fk[1] \in DOMAIN body /\ body[fk[1]] # Null
    /\ \A x \in d[fk[2]] : x["id"] # body[fk[1]]

\* a create that added exactly one row, with an id the store did not hold, and
\* answered 201 with it
Created(q) ==
  LET added == q.after["institution"] \ q.before["institution"] IN
  /\ q.status = 201
  /\ Cardinality(added) = 1
  /\ q.data = added
  /\ q.after = [q.before EXCEPT !["institution"] = @ \cup added]
  /\ \A x \in added : x["id"] \notin Ids(q.before)

\* C10 as stated (store faults aside): 400 without a row for a payload that lacks a required field
\* or has a coordinate out of range, 409 without a row for a taken name, 400
\* for a reference to a row that does not exist, otherwise one new row and 201
C10_CreateAsStated ==
  \A r \in Slots :
    (Done(r, "institutionCreate") /\ ~reqs[r].fault) =>
      LET q == reqs[r] IN
      IF CreateRefused(q.body) THEN q.status = 400 /\ q.after = q.before
      ELSE IF NameTaken(q.before, q.body) THEN q.status = 409 /\ q.after = q.before
      ELSE IF BadReference(q.before, q.body) THEN q.status = 400
      ELSE Created(q)

\* C10, amended: a malformed e-mail address is refused with 400 like the other
\* malformed inputs, and an INSERT the store fails or cannot read (a value of
\* the wrong type for its column) adds no row; the rest as stated
C10_CreateValidated ==
  \A r \in Slots :
    Done(r, "institutionCreate") =>
      LET q == reqs[r] IN
      IF CreateRefused(q.body) \/ BadEmail(q.body) THEN q.status = 400 /\ q.after = q.before
      ELSE IF q.fault \/ ~WellTyped(q.body) THEN q.after = q.before
      ELSE IF NameTaken(q.before, q.body) THEN q.status = 409 /\ q.after = q.before
      ELSE IF BadReference(q.before, q.body) THEN q.status = 400 /\ q.after = q.before
      ELSE Created(q)

\* a create with a well-formed e-mail address added its row
C10_Witness ==
  \E r \in Slots :
    /\ Done(r, "institutionCreate") /\ Created(reqs[r])
    /\ "email_principal" \in DOMAIN reqs[r].body

\* C11: every stored institution has a latitude that is null or within
\* [-90, 90] and a longitude that is null or within [-180, 180]
C11_CoordinatesInRange ==
  \A x \in db["institution"] :
    /\ x["lat"] = Null \/ (x["lat"].t = "number" /\ x["lat"].n >= -90 /\ x["lat"].n <= 90)
    /\ x["lng"] = Null \/ (x["lng"].t = "number" /\ x["lng"].n >= -180 /\ x["lng"].n <= 180)

\* C12: an update that would give the institution the name of another one, or
\* a reference to a row that does not exist, is answered 409 or 400, never
\* 500, and changes no row
C12_UpdateConflictReported ==
  \A r \in Slots :
    (Done(r, "institutionUpdate") /\ ~reqs[r].fault) =>
      LET q == reqs[r]
          target == {x \in q.before["institution"] : x["id"] = Str(q.path[1])}
      IN (/\ target # {}
          /\ WellTyped(q.body)
          /\ \/ \E x \in q.before["institution"] \ target :
                  "name" \in DOMAIN q.body /\ x["name"] = q.body["name"]
             \/ BadReference(q.before, q.body))
         => (q.status \in {400, 409} /\ q.after = q.before)

(* ------------------- institution deletes sent together ---------------- *)
DeleteRaceRequests ==
  {Request("DELETE", <<"i1">>, NoBody), Request("DELETE", <<"i9">>, NoBody)}

InitDeleteRace == InitWith(Env(DeleteRaceRequests, 2, {}), MaxFaults)

NextDeleteRace ==
  \E r \in Slots :
    \/ InstitutionDelete(r)
    \/ InstitutionDeleteExists(r)
    \/ InstitutionDeleteTxn(r)
    \/ InstitutionDeleteRollback(r)

SpecDeleteRace == InitDeleteRace /\ [][NextDeleteRace]_vars

\* C13: of the deletes of one institution at most one is answered with
\* success, and a delete that arrives when the institution row does not exist
\* is answered 404 and changes nothing (a store fault on its SELECT aside)
C13_DeleteAnswersOnce ==
  \A r \in Slots :
    Done(r, "institutionDelete") =>
      LET q == reqs[r] IN
      /\ q.status = 200 =>
           \A s \in Slots \ {r} :
             ~(Done(s, "institutionDelete") /\ reqs[s].status = 200 /\ reqs[s].path = q.path)
      /\ (Owned(q.pre, q.path[1])["institution"] = {} /\ ~q.fault) =>
           (q.status = 404 /\ q.after = q.before)

(* ------------- institution delete next to child-record creates -------- *)
OrphanRequests ==
  {Request("DELETE", <<"i1">>, NoBody),
   Request("POST", <<"i1", "opening-hours">>, [day_of_week |-> Num(2)]),
   Request("POST", <<"i1", "contacts">>, [contact_type_id |-> Str("t1"), value |-> Str("y")])}

InitOrphan == InitWith(Env(OrphanRequests, MaxSlots, {"institutionDelete"}), 0)

NextOrphan ==
  \E r \in Slots :
    \/ InstitutionDelete(r)
    \/ InstitutionDeleteExists(r)
    \/ InstitutionDeleteTxn(r)
    \/ InstitutionDeleteRollback(r)
    \/ OpeningHourCreate(r)
    \/ OpeningHourCreateExisting(r)
    \/ OpeningHourCreateResult(r)
    \/ RelationCreate(r)
    \/ RelationWriteResult(r)

SpecOrphan == InitOrphan /\ [][NextOrphan]_vars

\* C14: every child row names an institution the store holds, and once a
\* delete has answered success the store holds no child row of its institution
C14_NoOrphans ==
  /\ \A k \in DOMAIN childTables : \A x \in db[childTables[k]] :
       \E i \in db["institution"] : i["id"] = x["institution_id"]
  /\ \A r \in Slots :
       (Done(r, "institutionDelete") /\ reqs[r].status = 200) =>
         \A k \in DOMAIN childTables : Owned(db, reqs[r].path[1])[childTables[k]] = {}

(* ------------------------------ get by id ----------------------------- *)
GetRequests == {Request("GET", <<i>>, NoBody) : i \in {"i1", "i9"}}

InitGet == InitWith(Env(GetRequests, 1, {}), MaxFaults)

NextGet ==
  \E r \in Slots :
    \/ InstitutionGet(r)
    \/ InstitutionGetFound(r)
    \/ InstitutionGetChild(r)

SpecGet == InitGet /\ [][NextGet]_vars

\* C15: a get by id answers 404 without any child query when the institution
\* is absent; otherwise its eight child queries are all issued together, a 200
\* carries the institution and all eight results and is sent when none of the
\* eight is still running, a failed query makes the answer 500, and once the
\* request is answered the queries that finish later change nothing of it
C15_GatherAll ==
  /\ [](\A r \in Slots :
          LET q == reqs[r]
              n == Len(childTables)
              held == {x \in q.before["institution"] : x["id"] = Str(q.path[1])}
          IN /\ (HandlerOf(r) = "institutionGet" /\ q.pc = "institutionGet.all") =>
                  /\ q.status = 0
                  /\ Outstanding(r) \cup (DOMAIN q.data \ {0}) = 1..n
             /\ (HandlerOf(r) = "institutionGet" /\ q.pc = "institutionGet") =>
                  Outstanding(r) = {1}
             /\ Done(r, "institutionGet") =>
                  /\ q.status \in {200, 404, 500}
                  /\ q.status = 404 => (held = {} /\ Outstanding(r) = {} /\ q.data = {})
                  /\ q.status = 200 =>
                       /\ Outstanding(r) = {} /\ DOMAIN q.data = 0..n
                       /\ q.data[0] # {} /\ q.data[0] \subseteq held
                  /\ q.status = 500 => (q.fault /\ q.data = ServerFault)
                  /\ q.fault => q.status = 500)
  /\ [][\A r \in Slots :
          (reqs[r].pc = "done" /\ Outstanding(r) # {}) => reqs'[r] = reqs[r]]_vars

\* a get by id was answered 500 while others of its eight queries were still
\* waiting or running
C15_Witness ==
  \E r \in Slots :
    Done(r, "institutionGet") /\ reqs[r].status = 500 /\ Outstanding(r) # {}
(* ===================== the institution list: GET / ====================== *)
\* the institutions a dataset may hold next to the reference rows: the first
\* has every attribute a filter can test
ListInstitutions ==
  { Row("institution",
        [id |-> Str("i1"), name |-> Str("A"), category_id |-> Str("k1"),
         subtype_id |-> Str("s1"), region_id |-> Str("g1"), district_id |-> Str("d1"),
         commune_id |-> Str("c1"), street_id |-> Str("r1"), status |-> Str("ouvert"),
         capacity |-> Num(5), last_update |-> Num(0)]),
    Row("institution",
        [id |-> Str("i2"), name |-> Str("Ab"), category_id |-> Str("k1"),
         subtype_id |-> Str("s1"), region_id |-> Str("g1"), status |-> Str("ferme"),
         capacity |-> Num(7), last_update |-> Num(0)]),
    Row("institution",
        [id |-> Str("i3"), name |-> Str("B"), category_id |-> Str("k2"),
         subtype_id |-> Str("s1"), status |-> Str("ouvert"), last_update |-> Num(0)]) }

ListDataset(inst) ==
  [t \in Tables |->
     CASE t = "institution" -> inst
       [] t = "institution_category" -> {Row(t, Label("k1", "edu")), Row(t, Label("k2", "tel"))}
       [] t = "institution_subtype" ->
            {Row(t, [id |-> Str("s1"), category_id |-> Str("k1"),
                     code |-> Str("prim"), label |-> Str("x")])}
       [] t = "region" -> {Row(t, [id |-> Str("g1"), code |-> Str("nord"), name |-> Str("x")])}
       [] t = "district" ->
            {Row(t, [id |-> Str("d1"), region_id |-> Str("g1"), code |-> Str("dist"),
                     name |-> Str("x")])}
       [] t = "commune" ->
            {Row(t, [id |-> Str("c1"), district_id |-> Str("d1"), code |-> Str("com"),
                     name |-> Str("x")])}
       [] t = "street" ->
            {Row(t, [id |-> Str("r1"), commune_id |-> Str("c1"), name |-> Str("rue")])}
       [] OTHER -> {}]

FilterKeys == {ListFilters[i].key : i \in DOMAIN ListFilters}

\* one value for each filter, the one the first institution satisfies
FilterValue(key) ==
  CASE key = "category" -> Str("edu")
    [] key = "subtype" -> Str("prim")
    [] key = "region" -> Str("nord")
    [] key = "district" -> Str("dist")
    [] key = "commune" -> Str("com")
    [] key = "street" -> Str("rue")
    [] key = "name" -> Str("a")
    [] key = "status" -> Str("ouvert")
    [] OTHER -> Str("5")

\* req.query of the requests: every combination of the ten filters, then
\* names, codes and capacity bounds of other kinds, then pages
ListQueries ==
  {[k \in S |-> FilterValue(k)] : S \in SUBSET FilterKeys}
  \cup {[name |-> Str(n)] : n \in {"A", "b", "_", ""}}
  \cup {[category |-> Str(c)] : c \in {"tel", "prim", ""}}
  \cup {[status |-> Str("ferme")], [status |-> Str("ferme"), name |-> Str("b")],
        [min_capacity |-> Str("7")], [max_capacity |-> Str("7")],
        [min_capacity |-> Str("7"), max_capacity |-> Str("7")],
        [min_capacity |-> Str("7"), max_capacity |-> Str("5")],
        [min_capacity |-> Str("5"), max_capacity |-> Str("7")],
        [min_capacity |-> Str(""), max_capacity |-> Str("")]}
  \cup {[limit |-> Str(l)] : l \in {"0", "1", "2"}}
  \cup {[offset |-> Str(o)] : o \in {"0", "1", "3"}}
  \cup {[limit |-> Str(l), offset |-> Str(o)] : l \in {"0", "1", "2"}, o \in {"0", "1", "3"}}
  \cup {[limit |-> Str(l), offset |-> Str(o), name |-> Str("a")] :
          l \in {"1", "2"}, o \in {"0", "1"}}

ListRequests == {Request("GET", <<>>, query) : query \in ListQueries}

InitList ==
  /\ db \in {ListDataset(inst) : inst \in SUBSET ListInstitutions}
  /\ pool = StartedPool
  /\ reqs = [r \in Slots |-> FreeSlot]
  /\ clock = 0
  /\ nextId = 0
  /\ faults = MaxFaults
  /\ env \in {Env({q}, 1, {}) : q \in ListRequests}

NextList ==
  \E r \in Slots :
    \/ InstitutionList(r)
    \/ InstitutionListResult(r)

SpecList == InitList /\ [][NextList]_vars

\* text v occurs in text cs
Substring(v, cs) == \E i \in 1..(Len(cs) + 1) : \E j \in (i - 1)..Len(cs) : SubSeq(cs, i, j) = v

\* the number a decimal numeral of the query string stands for
Numeral(v) == CHOOSE n \in DOMAIN Decimals : Decimals[n] = v.s

\* institution x of dataset d satisfies the filter `key` of the query, when
\* the query supplies it and it is not empty
Satisfies(x, d, query, key) ==
  LET v == Get(query, key)
      Named(table, on, col) == \E y \in d[table] : y[on] = v /\ x[col] = y["id"]
  IN (key \in DOMAIN query /\ v # Str("")) =>
     CASE key = "category" -> Named("institution_category", "code", "category_id")
       [] key = "subtype" -> Named("institution_subtype", "code", "subtype_id")
       [] key = "region" -> Named("region", "code", "region_id")
       [] key = "district" -> Named("district", "code", "district_id")
       [] key = "commune" -> Named("commune", "code", "commune_id")
       [] key = "street" -> Named("street", "name", "street_id")
       [] key = "name" ->
            x["name"] # Null /\ Substring(Lower(Chars(v.s)), Lower(Chars(x["name"].s)))
       [] key = "status" -> x["status"] = v
       [] key = "min_capacity" -> x["capacity"] # Null /\ x["capacity"].n >= Numeral(v)
       [] key = "max_capacity" -> x["capacity"] # Null /\ x["capacity"].n <= Numeral(v)

ListAnswered(r) ==
  /\ reqs[r].pc = "done" /\ HandlerOf(r) = "institutionList" /\ ~reqs[r].fault

\* C16: a list request without limit and offset is answered 200 with exactly
\* the institutions that satisfy every supplied non-empty filter (capacity
\* bounds inclusive, name by case-insensitive substring); and while the query
\* of a request without any non-empty filter runs, it has no WHERE clause
C16_FilterAsStated ==
  \A r \in Slots :
    /\ (ListAnswered(r) /\ DOMAIN reqs[r].body \subseteq FilterKeys) =>
         /\ reqs[r].status = 200
         /\ Range(reqs[r].data.data)
              = {x \in reqs[r].before["institution"] :
                   \A key \in FilterKeys : Satisfies(x, reqs[r].before, reqs[r].body, key)}
    /\ (reqs[r].pc = "institutionList"
          /\ \A key \in FilterKeys : Falsy(Get(reqs[r].body, key))) =>
         reqs[r].stmt.where = <<>>

\* limit L and offset O of a query: the numeral supplied, 100 and 0 otherwise
PageOf(query) ==
  [L |-> IF "limit" \in DOMAIN query THEN Numeral(query["limit"]) ELSE 100,
   O |-> IF "offset" \in DOMAIN query THEN Numeral(query["offset"]) ELSE 0]

\* the rows the WHERE clause of the request's query keeps, in the order of name
MatchingInOrder(q) == OrderBy(Qualifies(q.before, InstitutionListQuery(q.body)), "name")

\* C17: a list request with limit L and offset O (100 and 0 when absent) over
\* the N matching rows in the order of name is answered 200 with exactly rows
\* O+1 .. min(O+L, N) of that order, `count` is the number of rows of that
\* page and at most L, and `limit` and `offset` are L and O
C17_Page ==
  \A r \in Slots :
    ListAnswered(r) =>
      \E page \in {PageOf(reqs[r].body)} :
      \E all \in {MatchingInOrder(reqs[r])} :
        /\ reqs[r].status = 200
        /\ reqs[r].data.data = SubSeq(all, page.O + 1, Min({page.O + page.L, Len(all)}))
        /\ reqs[r].data.count = Len(reqs[r].data.data)
        /\ reqs[r].data.count <= page.L
        /\ reqs[r].data.limit = Num(page.L) /\ reqs[r].data.offset = Num(page.O)

\* the second of three matching rows returned alone: limit 1, offset 1
C17_Witness ==
  \E r \in Slots :
    /\ ListAnswered(r) /\ reqs[r].status = 200
    /\ PageOf(reqs[r].body) = [L |-> 1, O |-> 1]
    /\ Len(MatchingInOrder(reqs[r])) = 3
    /\ reqs[r].data.count = 1
    /\ reqs[r].data.data = <<MatchingInOrder(reqs[r])[2]>>

(* ============ the generic relation handlers: store failures ============ *)
FirstVersionRequests ==
  {Request("GET", <<i, "contacts">>, NoBody) : i \in {"i1", "i9"}}
  \cup
  {Request("POST", <<i, "contacts">>, b) :
     i \in {"i1", "i9"},
     b \in {[contact_type_id |-> Str("t1"), value |-> Str("y")], [value |-> Str("y")]}}
  \cup
  {Request("POST", <<"i1", "opening_hours">>,
           [day_of_week |-> d, open_time |-> Str("x"), close_time |-> Str("x")]) :
     d \in {Num(2), Num(9)}}

InitFirstVersion == InitWith(Env(FirstVersionRequests, 2, {}), MaxFaults)

NextFirstVersion ==
  \E r \in Slots :
    \/ RelationListFirst(r)
    \/ RelationListFirstResult(r)
    \/ RelationCreateFirst(r)
    \/ RelationCreateFirstResult(r)

SpecFirstVersion == InitFirstVersion /\ [][NextFirstVersion]_vars

\* the second version's handlers for the same requests
NextSecondVersion ==
  \E r \in Slots :
    \/ RelationList(r)
    \/ RelationListResult(r)
    \/ RelationCreate(r)
    \/ RelationWriteResult(r)

SpecSecondVersion == InitFirstVersion /\ [][NextSecondVersion]_vars

\* C18: a request one of whose store queries failed with an unclassified
\* error (a transient store fault) has been answered, with status 500 and a
\* body of an `error` and a `details` field, as soon as the failure has been
\* delivered to its handler; no request is left where its handler ended
\* without a response
C18_OneServerFault ==
  \A r \in Slots :
    /\ reqs[r].pc # "unhandled"
    /\ reqs[r].fault =>
         (reqs[r].pc = "done" /\ reqs[r].status = 500 /\ reqs[r].data = ServerFault)

(* ================= categories and subtypes: deletion ==================== *)
\* the seed rows and a category and a subtype no row refers to
ReferenceRows ==
  [SeedRows EXCEPT
     !["institution_category"] = @ \cup {Row("institution_category", Label("k2", "tel"))},
     !["institution_subtype"] =
        @ \cup {Row("institution_subtype",
                    [id |-> Str("s2"), category_id |-> Str("k1"), code |-> Str("x"),
                     label |-> Str("x")])}]

ReferenceDeleteRequests ==
  {Request("DELETE", <<"categories", i>>, NoBody) : i \in {"k1", "k2", "i9"}}
  \cup {Request("DELETE", <<"subtypes", i>>, NoBody) : i \in {"s1", "s2", "i9"}}

InitReferenceDelete ==
  /\ db = ReferenceRows
  /\ pool = StartedPool
  /\ reqs = [r \in Slots |-> FreeSlot]
  /\ clock = 0
  /\ nextId = 0
  /\ faults = MaxFaults
  /\ env = Env(ReferenceDeleteRequests, 2, {})

NextReferenceDelete ==
  \E r \in Slots :
    \/ ReferenceDelete(r)
    \/ ReferenceDeleteResult(r)

SpecReferenceDelete == InitReferenceDelete /\ [][NextReferenceDelete]_vars

\* the request of slot r is an answered delete of a category or a subtype
\* that no store fault hit
ReferenceDeleted(r) ==
  /\ reqs[r].pc = "done" /\ ~reqs[r].fault
  /\ HandlerOf(r) \in {"categoryDelete", "subtypeDelete"}

\* C19: a delete of a category or subtype an institution refers to is
\* answered 409 and no table changes; a delete of one that does not exist is
\* answered 404; a delete of one that no row refers to is answered 200 and
\* removes exactly that row
C19_ReferenceDelete ==
  \A r \in Slots :
    ReferenceDeleted(r) =>
      LET q == reqs[r]
          table == ReferenceDeleteTable(HandlerOf(r))
          col == IF table = "institution_category" THEN "category_id" ELSE "subtype_id"
          target == {x \in q.before[table] : x["id"] = Str(q.path[2])}
      IN /\ (\E i \in q.before["institution"] : i[col] = Str(q.path[2])) =>
              (q.status = 409 /\ q.after = q.before)
         /\ target = {} => (q.status = 404 /\ q.after = q.before)
         /\ (target # {} /\ ~StillReferenced(q.before, table, target)) =>
              (q.status = 200 /\ q.after = [q.before EXCEPT ![table] = @ \ target])

\* the category of two institutions refused and the unreferenced one removed
C19_Witness ==
  \E r, s \in Slots :
    /\ ReferenceDeleted(r) /\ reqs[r].path = <<"categories", "k1">> /\ reqs[r].status = 409
    /\ ReferenceDeleted(s) /\ reqs[s].path = <<"categories", "k2">> /\ reqs[s].status = 200
    /\ db["institution_category"] = {Row("institution_category", Label("k1", "edu"))}

(* ============ reference and geography entities: creation ================ *)
\* one row in each of the nine tables
ReferenceCreateRows ==
  [t \in Tables |->
     CASE t = "staff_type" -> {Row(t, Label("t2", "edu"))}
       [] t = "utility_type" -> {Row(t, Label("t3", "edu"))}
       [] t \in {"region", "district", "commune", "street"} -> ListDataset({})[t]
       [] OTHER -> SeedRows[t]]

\* the path of each create endpoint, its natural key and its parent column
ReferenceEndpoints ==
  LET e(path, key, parent) == [path |-> path, key |-> key, parent |-> parent]
  IN {e(<<"categories">>, "code", ""), e(<<"subtypes">>, "code", "category_id"),
      e(<<"contact-types">>, "code", ""), e(<<"staff-types">>, "code", ""),
      e(<<"utility-types">>, "code", ""), e(<<"geo", "regions">>, "code", ""),
      e(<<"geo", "districts">>, "code", "region_id"),
      e(<<"geo", "communes">>, "code", "district_id"),
      e(<<"geo", "streets">>, "name", "commune_id")}

\* the key of the row ReferenceCreateRows holds in the endpoint's table and
\* the id of the row its parent column may refer to
TakenKey(e) ==
  CASE e.path = <<"categories">> -> "edu"
    [] e.path = <<"subtypes">> -> "prim"
    [] e.path = <<"contact-types">> -> "tel"
    [] e.path \in {<<"staff-types">>, <<"utility-types">>} -> "edu"
    [] e.path = <<"geo", "regions">> -> "nord"
    [] e.path = <<"geo", "districts">> -> "dist"
    [] e.path = <<"geo", "communes">> -> "com"
    [] OTHER -> "rue"

ParentId(e) ==
  CASE e.parent = "category_id" -> "k1"
    [] e.parent = "region_id" -> "g1"
    [] e.parent = "district_id" -> "d1"
    [] OTHER -> "c1"

\* bodies with a key that is taken or free and a parent that exists or not
ReferenceCreateRequests ==
  UNION {{Request("POST", e.path,
                  [f \in {e.key, "label", "name"}
                           \cup (IF e.parent = "" THEN {} ELSE {e.parent}) |->
                     IF f = e.key THEN Str(key)
                     ELSE IF f = e.parent THEN Str(parent) ELSE Str("x")]) :
            key \in {"y", TakenKey(e)}, parent \in {"i9", ParentId(e)}} :
         e \in ReferenceEndpoints}
  \cup {Request("POST", <<"categories">>, [code |-> Str("y")])}

InitReferenceCreate ==
  /\ db = ReferenceCreateRows
  /\ pool = StartedPool
  /\ reqs = [r \in Slots |-> FreeSlot]
  /\ clock = 0
  /\ nextId = 0
  /\ faults = 0
  /\ env = Env(ReferenceCreateRequests, 1, {})

NextReferenceCreate ==
  \E r \in Slots :
    \/ ReferenceCreate(r)
    \/ ReferenceCreateResult(r)

SpecReferenceCreate == InitReferenceCreate /\ [][NextReferenceCreate]_vars

\* the body has the key, the label and name, and the parent id if there is one
Complete(e, body) ==
  {e.key, "label", "name"} \cup (IF e.parent = "" THEN {} ELSE {e.parent}) \subseteq DOMAIN body

\* C20: a create of a reference or geography entity, its required fields
\* supplied, whose natural key (code; name for a street) is that of an
\* existing row of the table is answered 409, a create whose parent id names
\* no row is answered 400 (its key being free), and in both cases no table
\* changes
C20_CreateRefusedCleanly ==
  \A r \in Slots :
    \A e \in ReferenceEndpoints :
      (reqs[r].pc = "done" /\ reqs[r].method = "POST" /\ reqs[r].path = e.path
         /\ Complete(e, reqs[r].body)) =>
        LET q == reqs[r]
            table == ReferenceCreates[HandlerOf(r)].table
            taken == \E x \in q.before[table] : x[e.key] = q.body[e.key]
            orphan == /\ e.parent # ""
                      /\ \A fk \in ForeignKeys(table) :
                           fk[1] = e.parent =>
                             \A x \in q.before[fk[2]] : x["id"] # q.body[e.parent]
        IN /\ taken => (q.status = 409 /\ q.after = q.before)
           /\ (orphan /\ ~taken) => (q.status = 400 /\ q.after = q.before)

(* ====================== the list's sort parameter ======================= *)
SortRequests ==
  {Request("GET", <<>>, query) :
     query \in {[sort |-> Str(s)] : s \in {"name", "name DESC", "bogus"}}
               \cup {NoBody, [sort |-> Str("name DESC"), limit |-> Str("1")]}}

InitSort ==
  /\ db \in {ListDataset(inst) : inst \in SUBSET ListInstitutions}
  /\ pool = StartedPool
  /\ reqs = [r \in Slots |-> FreeSlot]
  /\ clock = 0
  /\ nextId = 0
  /\ faults = MaxFaults
  /\ env \in {Env({q}, 1, {}) : q \in SortRequests}

SpecSort == InitSort /\ [][NextList]_vars

\* C21: a list request whose sort key is not a column of institution is
\* answered 400 and no query is issued for it; the ORDER BY text of a list
\* query that runs is a column of institution, never another text of the
\* request
C21_SortAllowListed ==
  \A r \in Slots :
    (HandlerOf(r) = "institutionList" /\ reqs[r].pc # "free") =>
      /\ ("sort" \in DOMAIN reqs[r].body
            /\ reqs[r].body["sort"].s \notin Columns("institution")) =>
           (reqs[r].pc = "done" /\ reqs[r].status = 400)
      /\ reqs[r].pc = "institutionList" => reqs[r].stmt.sort \in Columns("institution")

(* ======================== the day of an opening hour ==================== *)
\* v is one of the days 1..7, as a number or as its numeral
IsDay(v) ==
  \/ v.t = "number" /\ v.n \in 1..7
  \/ v.t = "string" /\ \E n \in 1..7 : Decimals[n] = v.s

\* the request of slot r creates (POST) or updates (PUT) an opening hour
\* through one of the opening-hour routes
WritesHour(r, method) ==
  /\ reqs[r].method = method
  /\ Len(reqs[r].path) = (IF method = "POST" THEN 2 ELSE 3)
  /\ reqs[r].path[2] \in {"opening-hours", "opening_hours"}

\* C22: every stored opening_hour row has day_of_week in 1..7; an answered
\* create whose day_of_week is absent or not in 1..7, and an answered update
\* that carries a day_of_week not in 1..7, was answered 400 and wrote nothing
C22_DayInRange ==
  /\ \A x \in db["opening_hour"] : IsDay(x["day_of_week"])
  /\ \A r \in Slots :
       (reqs[r].pc = "done" /\ ~reqs[r].fault) =>
         /\ (WritesHour(r, "POST") /\ ~IsDay(Get(reqs[r].body, "day_of_week"))) =>
              (reqs[r].status = 400 /\ reqs[r].after = reqs[r].before)
         /\ (WritesHour(r, "PUT") /\ "day_of_week" \in DOMAIN reqs[r].body
               /\ ~IsDay(reqs[r].body["day_of_week"])) =>
              (reqs[r].status = 400 /\ reqs[r].after = reqs[r].before)

(* =============== institution delete: order of the statements =========== *)
\* the statements of a delete that found its institution, in the order stated
DeleteOrder ==
  << <<"BEGIN", "">>, <<"DELETE", "contact">>, <<"DELETE", "institution_staff">>,
     <<"DELETE", "institution_utility">>, <<"DELETE", "service">>, <<"DELETE", "photo">>,
     <<"DELETE", "opening_hour">>, <<"DELETE", "education_fee">>,
     <<"DELETE", "institution_ratio">>, <<"DELETE", "institution">>, <<"COMMIT", "">> >>

\* the statement a request has issued last and awaits
Issued(q) == <<q.stmt.op, q.stmt.table>>

\* the step from q to n of one delete request follows the order
DeleteStep(q, n) ==
  LET at == {i \in DOMAIN DeleteOrder : DeleteOrder[i] = Issued(q)}
      sent == n.pc = "done" /\ q.pc # "done"
  IN /\ (Issued(n) = DeleteOrder[1] /\ Issued(q) # Issued(n)) =>
          Issued(q) = <<"SELECT", "institution">>
     /\ \A i \in 2..Len(DeleteOrder) :
          (Issued(n) = DeleteOrder[i] /\ Issued(q) # Issued(n)) => Issued(q) = DeleteOrder[i - 1]
     /\ (Issued(n) = <<"ROLLBACK", "">> /\ Issued(q) # Issued(n)) =>
          \E i \in 2..Len(DeleteOrder) : Issued(q) = DeleteOrder[i]
     /\ (sent /\ n.status = 200) => Issued(q) = <<"COMMIT", "">>
     /\ (sent /\ n.status = 500) =>
          Issued(q) \in {<<"SELECT", "institution">>, <<"BEGIN", "">>, <<"ROLLBACK", "">>}
     /\ (\E i \in 2..Len(DeleteOrder) : Issued(q) = DeleteOrder[i]) =>
          \/ n.stmt = q.stmt
          \/ Issued(n) = <<"ROLLBACK", "">>
          \/ \E i \in 2..(Len(DeleteOrder) - 1) :
               Issued(q) = DeleteOrder[i] /\ Issued(n) = DeleteOrder[i + 1]
          \/ Issued(q) = <<"COMMIT", "">> /\ sent /\ n.status = 200
     /\ Issued(q) = <<"ROLLBACK", "">> =>
          (n.stmt = q.stmt \/ (sent /\ n.status = 500))

\* C23: a delete that passed the existence check issues BEGIN, the eight
\* child deletes in the order contact .. institution_ratio, the delete of the
\* institution and COMMIT, one after the other, and answers 200 after COMMIT;
\* once a statement after BEGIN has failed the next statement is ROLLBACK,
\* after which nothing is issued and the 500 is sent
C23_DeleteInOrder ==
  [][\A r \in Slots :
       (HandlerOf(r) = "institutionDelete" /\ reqs[r].pc \notin {"free", "done"}) =>
         DeleteStep(reqs[r], reqs'[r])]_vars

\* a delete rolls back after its third child delete failed
C23_Witness ==
  \E r \in Slots :
    /\ HandlerOf(r) = "institutionDelete"
    /\ Issued(reqs[r]) = <<"ROLLBACK", "">> /\ reqs[r].k = 3

(* ================= the list query: placeholder numbering ================ *)
\* the ten filters in the order in which they are evaluated
FilterOrder ==
  <<"category", "subtype", "region", "district", "commune", "street", "name", "status",
    "min_capacity", "max_capacity">>

\* the filters of a query that are present and not empty, in that order
SuppliedFilters(query) ==
  LET supplied(key) == key \in DOMAIN query /\ query[key] # Str("")
  IN SelectSeq(FilterOrder, supplied)

\* the list query of slot r is running; Entry(key, v) is what its parameter
\* list is to hold for the filter key with value v
Numbered(r, Entry(_, _)) ==
  LET st == reqs[r].stmt
      given == SuppliedFilters(reqs[r].body)
      n == Len(given)
  IN /\ Len(st.where) = n
     /\ \A k \in 1..n :
          /\ st.where[k].ph = Ph(k)
          /\ st.where[k].col = (CASE given[k] \in {"min_capacity", "max_capacity"} -> "capacity"
                                  [] given[k] \in {"name", "status"} -> given[k]
                                  [] OTHER -> given[k] \o "_id")
          /\ st.params[k] = Entry(given[k], reqs[r].body[given[k]])
     /\ st.limit = Ph(n + 1) /\ st.offset = Ph(n + 2)
     /\ Len(st.params) = n + 2

\* the entry for a filter is its value
SameValue(key, v) == v

\* the entry for a filter is its value; for name, the value in lower case
\* between two % signs
ValueOrPattern(key, v) ==
  IF key = "name" THEN V("pattern", 0, <<"%">> \o Lower(Chars(v.s)) \o <<"%">>) ELSE v

\* C24 as stated: the k-th predicate uses $k and the k-th parameter is that
\* filter's value, LIMIT uses $(n+1), OFFSET $(n+2), and there are n+2
\* parameters
C24_NumberingAsStated ==
  \A r \in Slots : reqs[r].pc = "institutionList" => Numbered(r, SameValue)

\* C24: the k-th predicate (in the order category, subtype, region, district,
\* commune, street, name, status, min_capacity, max_capacity of the filters
\* that are present and not empty) uses $k and the k-th parameter is that
\* filter's value, for name its lower-case text between two % signs; LIMIT
\* uses $(n+1), OFFSET $(n+2), and the parameter list has n+2 entries
C24_Numbering ==
  \A r \in Slots : reqs[r].pc = "institutionList" => Numbered(r, ValueOrPattern)

\* a query with all ten filters is running: twelve parameters
C24_Witness ==
  \E r \in Slots :
    /\ reqs[r].pc = "institutionList"
    /\ Len(SuppliedFilters(reqs[r].body)) = 10
    /\ Len(reqs[r].stmt.params) = 12
    /\ reqs[r].stmt.where[7].ph = Ph(7)

(* ============ institution delete: one connection, one transaction ====== *)
\* the institution delete of slot r is between its BEGIN and its COMMIT
InsideDelete(r) ==
  /\ HandlerOf(r) = "institutionDelete"
  /\ reqs[r].pc \in {"institutionDelete.child", "institutionDelete.row",
                     "institutionDelete.commit"}

\* C25: a statement an institution delete issues after its BEGIN runs on the
\* connection whose transaction that BEGIN opened; no statement of another
\* request runs on a connection that is inside a transaction; and when no
\* delete is under way no connection of the pool is inside a transaction
C25_ConnectionAffinity ==
  /\ \A r \in Slots :
       (InsideDelete(r) /\ ClientOf(pool, <<r, 1>>) # 0) =>
         pool.conns[ClientOf(pool, <<r, 1>>)].txn
  /\ \A c \in Clients : \A r \in Slots :
       (pool.conns[c].txn /\ pool.conns[c].busy[1] = r) => HandlerOf(r) = "institutionDelete"
  /\ (\A r \in Slots : HandlerOf(r) = "institutionDelete" => reqs[r].pc = "done") =>
       \A c \in Clients : ~pool.conns[c].txn

(* ================== writes that were acknowledged ======================= *)
\* a delete of one institution next to creates for another
DurableRequests ==
  {Request("DELETE", <<"i1">>, NoBody),
   Request("POST", <<"i2", "opening-hours">>, [day_of_week |-> Num(3)])}

InitDurable == InitWith(Env(DurableRequests, MaxSlots, {"institutionDelete"}), MaxFaults)

NextDurable ==
  \E r \in Slots :
    \/ InstitutionDelete(r)
    \/ InstitutionDeleteExists(r)
    \/ InstitutionDeleteTxn(r)
    \/ InstitutionDeleteRollback(r)
    \/ OpeningHourCreate(r)
    \/ OpeningHourCreateExisting(r)
    \/ OpeningHourCreateResult(r)

SpecDurable == InitDurable /\ [][NextDurable]_vars

\* C26: the row of a create that was answered 201 is in the store, with the
\* values it was answered with, as long as no request changes or removes it
\* or deletes its institution (no request of this specification does)
C26_AcknowledgedStays ==
  \A r \in Slots :
    (reqs[r].pc = "done" /\ HandlerOf(r) = "openingHourCreate" /\ reqs[r].status = 201) =>
      /\ reqs[r].data # {}
      /\ reqs[r].data \subseteq db["opening_hour"]

(* ====================== the pool under saturation ======================= *)
\* more requests than the pool has clients: gets by id, each with eight
\* queries at once, next to a delete of the same institution
SaturationRequests ==
  {Request("GET", <<"i1">>, NoBody), Request("DELETE", <<"i1">>, NoBody)}

\* all but two of the requests the server will take have been served, and the
\* store fails no statement
InitSaturation ==
  /\ db = SeedRows
  /\ pool = StartedPool
  /\ reqs = [r \in Slots |-> FreeSlot]
  /\ clock = MaxClock - 2
  /\ nextId = 0
  /\ faults = 0
  /\ env = Env(SaturationRequests, MaxSlots, {"institutionDelete"})

\* the idle timer of the pool fires for a client on the idle list
IdleTimeout ==
  /\ \E c \in Clients :
       /\ \E i \in DOMAIN pool.idle : pool.idle[i] = c
       /\ pool' = Expire(pool, c)
  /\ UNCHANGED <<db, reqs, clock, nextId, faults, env>>

\* the store answers a query of request r and the handler goes on
StoreAnswers(r) ==
  \/ InstitutionGetFound(r)
  \/ InstitutionGetChild(r)
  \/ InstitutionDeleteExists(r)
  \/ InstitutionDeleteTxn(r)
  \/ InstitutionDeleteRollback(r)

NextSaturation ==
  \/ IdleTimeout
  \/ \E r \in Slots :
       \/ InstitutionGet(r)
       \/ InstitutionDelete(r)
       \/ StoreAnswers(r)

\* the store answers every query that runs on a client, and the idle timer
\* fires for a client that stays idle
SpecSaturation ==
  /\ InitSaturation /\ [][NextSaturation]_vars
  /\ WF_vars(NextSaturation)

Busy == {c \in Clients : pool.conns[c].busy # NoQuery}

Waiting == {pool.pending[i] : i \in DOMAIN pool.pending}

Idle == {pool.idle[i] : i \in DOMAIN pool.idle}

\* the pool never has more than max clients checked out, a client is checked
\* out for one running query only, and a query waits only while every client
\* of the pool runs a query
PoolWithinMax ==
  /\ Cardinality(Busy) <= PoolMax
  /\ \A c \in Clients : pool.conns[c].busy # NoQuery => pool.conns[c].open
  /\ \A c, o \in Busy : pool.conns[c].busy = pool.conns[o].busy => c = o
  /\ \A c \in Busy : pool.conns[c].busy \notin Waiting
  /\ Waiting # {} => Busy = Clients

\* between two statements a handler has no client: every open client either
\* runs a query or is on the idle list, and a request other than a get by id
\* has at most one query with the pool
NoHoldAndWait ==
  /\ \A c \in Clients : pool.conns[c].open => ((c \in Busy) # (c \in Idle))
  /\ \A c \in Idle : pool.conns[c].open
  /\ \A r \in Slots : HandlerOf(r) # "institutionGet" => Outstanding(r) \subseteq {1}
  /\ \A r \in Slots : reqs[r].pc \in {"free", "done"} /\ HandlerOf(r) # "institutionGet" =>
       Outstanding(r) = {}

\* every request that was taken is answered
Responds == \A r \in Slots : []<>(~InFlight(r))

\* C27: at most max clients are checked out, no handler keeps a client while
\* it waits for another, and every request gets its response
C27_NoPoolDeadlock == [](PoolWithinMax /\ NoHoldAndWait) /\ Responds

\* every client runs a query, more queries wait, and a get by id has some of
\* its eight queries running and others waiting
C27_Witness ==
  /\ Busy = Clients /\ Waiting # {}
  /\ \E r \in Slots : \E k, j \in Outstanding(r) :
       /\ reqs[r].pc = "institutionGet.all"
       /\ ClientOf(pool, <<r, k>>) # 0 /\ <<r, j>> \in Waiting

(* ======================= identity and ownership ========================= *)
\* a payload that names an identifier and an owner of its own
Foreign == [id |-> Str("i9"), institution_id |-> Str("i2")]

IdentityRequests ==
  {Request("PUT", <<i>>, With(Foreign, b)) :
     i \in {"i1", "n1"}, b \in {NoBody, [name |-> Str("y")]}}
  \cup {Request("POST", <<>>, With(NewInstitution, Foreign))}
  \cup {Request("PUT", <<"i1", "opening-hours", "oa">>, With(Foreign, [day_of_week |-> Num(3)])),
        Request("POST", <<"i1", "opening-hours">>, With(Foreign, [day_of_week |-> Num(4)])),
        Request("PUT", <<"i1", "contacts", "ca">>, With(Foreign, [value |-> Str("y")])),
        Request("POST", <<"i1", "contacts">>,
                With(Foreign, [contact_type_id |-> Str("t1"), value |-> Str("y")])),
        Request("PUT", <<"categories", "k1">>, With(Foreign, [label |-> Str("y")])),
        Request("PUT", <<"subtypes", "s1">>, With(Foreign, [label |-> Str("y")]))}

InitIdentity == InitWith(Env(IdentityRequests, 1, {}), 0)

NextIdentity ==
  \E r \in Slots :
    \/ InstitutionCreate(r)
    \/ InstitutionCreateResult(r)
    \/ InstitutionUpdate(r)
    \/ InstitutionUpdateResult(r)
    \/ OpeningHourCreate(r)
    \/ OpeningHourCreateExisting(r)
    \/ OpeningHourCreateResult(r)
    \/ OpeningHourUpdate(r)
    \/ OpeningHourItemResult(r)
    \/ RelationCreate(r)
    \/ RelationUpdate(r)
    \/ RelationWriteResult(r)
    \/ RelationCreateFirst(r)
    \/ RelationCreateFirstResult(r)
    \/ ReferenceUpdate(r)
    \/ ReferenceUpdateResult(r)

SpecIdentity == InitIdentity /\ [][NextIdentity]_vars

\* the row of table t keeps its id, and its owner when it is a child row
Kept(t, x, rows) ==
  \E y \in rows :
    /\ y["id"] = x["id"]
    /\ t \in Range(childTables) => y["institution_id"] = x["institution_id"]

\* the row is new in this step: the request answered now is a create, the id
\* is one the server generated and the owner is the institution of the path
Made(t, y) ==
  /\ \E i \in DOMAIN FreshIds : y["id"] = Str(FreshIds[i])
  /\ \E r \in Slots :
       /\ reqs[r].pc # "done" /\ reqs'[r].pc = "done" /\ reqs'[r].method = "POST"
       /\ t \in Range(childTables) => y["institution_id"] = Str(reqs'[r].path[1])

\* C28: no step changes the id of a row, or the owner of a child row; a row a
\* step adds has a server-generated id and, for a child row, the institution
\* of the path as its owner, whatever the payload names
C28_IdentityKept ==
  [][\A t \in Tables :
       /\ \A x \in db[t] : Kept(t, x, db'[t])
       /\ \A y \in db'[t] : Kept(t, y, db[t]) \/ Made(t, y)]_vars

\* an update and a create whose payloads name an id and an owner were done
C28_Witness ==
  /\ \E r \in Slots :
       /\ reqs[r].pc = "done" /\ reqs[r].status = 200
       /\ HandlerOf(r) \in {"institutionUpdate", "openingHourUpdate"}
       /\ "id" \in DOMAIN reqs[r].body
  /\ \E t \in Tables : \E y \in db[t] : \E i \in DOMAIN FreshIds : y["id"] = Str(FreshIds[i])

====
